---- MODULE Spec2Model ----
(***************************************************************************)
(* dbx-ignore: the watch daemon's lifecycle (session record, start, stop)  *)
(* and its reconciliation passes, modelled from src/src/lib.rs,            *)
(* src/src/core/daemon.rs and src/src/core/watch.rs.                       *)
(***************************************************************************)
EXTENDS Naturals, Integers, Sequences, FiniteSets, TLC

\* ------------------------------------------------------------------------
\* Bounds of the lifecycle model
\* ------------------------------------------------------------------------

\* Number of daemon processes that can ever be spawned (process ids 1..MaxPid).
MaxPid == 2

\* Number of command-line invocations (Watch / Unwatch) that may run at once.
MaxCli == 1

Pids == 1..MaxPid
Slots == 1..MaxCli

VARIABLES
    record,      \* .dbx-ignore/daemon.json: 0 = no file, else the recorded pid
    proc,        \* proc[d]: where daemon process d is in lib.rs run()
    signalled,   \* live daemons with a termination signal pending
    cli,         \* cli[s]: the command-line invocation running in slot s
    overlap,     \* history: two daemon start-ups were between check and write at once
    orphan,      \* history: the record of a daemon in its watch session was deleted
    exists,      \* the files and directories that exist
    marker,      \* the paths that carry the ignore marker (an extended attribute)
    failing,     \* the paths on which the attribute store fails to add or remove
    rules,       \* the lines of the repository's .gitignore
    specFile,    \* .dbx-ignore/tracked_files.json
    watch_mode,  \* the session's WatchMode
    report,      \* the counters the last reconciliation pass printed
    prevMarker,  \* history: marker as it was when the last pass began
    prevSpec,    \* history: specFile as it was when the last pass began
    passNo,      \* history: number of passes run
    sess,        \* the position of watch_repository and what it fixed at start
    queue,       \* the channel from the watcher callback to the loop
    pending,     \* pending_events
    missed,      \* history: a change since the last pass that no pass will follow
    changes,     \* history: number of changes made from outside
    lp,          \* the daemon process of the timed event loop: position, timer, signal
    dstat,       \* daemon.json as a text, the running processes, the last read or write
    atomic,      \* one state file under write_json_atomic: inodes, writers, a reader
    trackedMem,  \* the TrackedFiles value a command holds in memory
    index        \* the paths the version control index holds

lifeVars == <<record, proc, signalled, cli, overlap, orphan>>

fsVars == <<exists, marker, failing, rules, specFile>>

scanVars == <<watch_mode, report, prevMarker, prevSpec, passNo>>

sessVars == <<sess, queue, pending, missed, changes>>

loopVars == <<lp>>

ioVars == <<dstat, atomic, trackedMem, index>>

vars == <<record, proc, signalled, cli, overlap, orphan, exists, marker,
          failing, rules, specFile, watch_mode, report, prevMarker, prevSpec,
          passNo, sess, queue, pending, missed, changes, lp, dstat, atomic,
          trackedMem, index>>

\* ------------------------------------------------------------------------
\* daemon.rs
\* ------------------------------------------------------------------------

\* The process exists: spawned and neither exited nor killed.
Alive(d) == d \in Pids /\ proc[d] \notin {"unborn", "refused", "dead"}

\* is_process_running(pid): `kill -0 pid` succeeds.
IsProcessRunning(pid) == Alive(pid)

\* A mutant of DaemonStatusRead: the liveness probe is skipped.
DaemonStatusRead_NoProbe(rec) ==
    IF rec = 0 THEN "none" ELSE "some"

\* A mutant of DaemonStatusRead: a record of a live process is reported absent.
DaemonStatusRead_LiveIgnored(rec) ==
    IF rec = 0 THEN "none"
    ELSE IF IsProcessRunning(rec) THEN "none" ELSE "stale"

\* DaemonStatus::read up to its decision: no file -> None; the recorded
\* process runs -> Some(status); otherwise the file is stale and is removed
\* (a second step, since the file may change between the probe and the unlink).
DaemonStatusRead(rec) ==
    IF rec = 0 THEN "none"
    ELSE IF IsProcessRunning(rec) THEN "some" ELSE "stale"

\* A daemon start-up that has passed its liveness check and not yet written.
Starting(d) == proc[d] \in {"purge", "checked"}

\* A live watch session: the daemon is inside watch_repository.
LiveSessions == {d \in Pids : proc[d] = "watching"}

\* Deleting the record file: does it take the record away from a daemon that
\* is (and stays) in its watch session?
Orphans(newProc) ==
    /\ record # 0
    /\ proc[record] = "watching"
    /\ newProc[record] = "watching"

\* The daemons an earlier Watch request has reported as started: run() reports
\* "Started daemon watcher" right after spawn_daemon, so these are the
\* spawned ones.
StartedRet == {d \in Pids : proc[d] # "unborn"}

\* The most recently started daemon that is alive (0: none).
LatestLive ==
    IF \E d \in StartedRet : Alive(d)
    THEN CHOOSE d \in StartedRet : Alive(d) /\ \A e \in StartedRet : Alive(e) => e <= d
    ELSE 0

IdleCli == [op |-> "none", pc |-> "idle", tgt |-> 0, outcome |-> "",
            sawStale |-> FALSE, prior |-> 0]

\* ------------------------------------------------------------------------
\* The file tree: a repository at /repo and one directory outside it
\* ------------------------------------------------------------------------

\* Every path the model knows, written as the program sees it.
Paths == {"/repo/a.txt", "/repo/b.log", "/repo/sub", "/repo/sub/c.log",
          "/repo/.git/x.log", "/out/o.log"}

AbsComps(p) ==
    CASE p = "/repo/a.txt"      -> <<"repo", "a.txt">>
      [] p = "/repo/b.log"      -> <<"repo", "b.log">>
      [] p = "/repo/sub"        -> <<"repo", "sub">>
      [] p = "/repo/sub/c.log"  -> <<"repo", "sub", "c.log">>
      [] p = "/repo/.git/x.log" -> <<"repo", ".git", "x.log">>
      [] p = "/out/o.log"       -> <<"out", "o.log">>

IsDir(p) == p = "/repo/sub"

IsFile(p) == ~IsDir(p)

Last(s) == s[Len(s)]

Ext(name) ==
    CASE name \in {"b.log", "c.log", "x.log", "o.log"} -> "log"
      [] name = "a.txt" -> "txt"
      [] OTHER -> ""

\* repo_root: the work directory of the opened repository.
RepoRoot == <<"repo">>

UnderRoot(p) == AbsComps(p)[1] = "repo"

\* The path relative to the repository root (strip_prefix).
RelComps(p) == Tail(AbsComps(p))

HasGitComponent(comps) == \E i \in 1..Len(comps) : comps[i] = ".git"

\* Directories that must exist for p to exist.
Parent(p) == IF p = "/repo/sub/c.log" THEN {"/repo/sub"} ELSE {}

\* The trees the model starts from: .git and the outside directory are
\* always populated, the work tree varies.
Trees ==
    {t \in SUBSET Paths :
        /\ {"/repo/a.txt", "/repo/.git/x.log", "/out/o.log"} \subseteq t
        /\ \A p \in t : Parent(p) \subseteq t}

\* The number of paths the attribute store may fail on.
MaxFail == 1

SetsUpTo(S, n) == {x \in SUBSET S : Cardinality(x) <= n}

\* ------------------------------------------------------------------------
\* Patterns: the lines of .gitignore and the glob patterns of the spec file
\* ------------------------------------------------------------------------

\* The path segments of a pattern text, without a leading or trailing slash
\* and without a leading "!".
Segs(pat) ==
    CASE pat = "*.log"      -> <<"*.log">>
      [] pat = "*.txt"      -> <<"*.txt">>
      [] pat = "sub/*.log"  -> <<"sub", "*.log">>
      [] pat = "**/*.log"   -> <<"**", "*.log">>
      [] pat = ".git/*.log" -> <<".git", "*.log">>
      [] pat = "/out/*.log" -> <<"out", "*.log">>
      [] pat = "!b.log"     -> <<"b.log">>
      [] pat = "sub/"       -> <<"sub">>
      [] pat = "*"          -> <<"*">>
      [] pat = "./*"        -> <<"*">>
      [] pat = "*.tmp"      -> <<"*.tmp">>
      [] OTHER              -> <<>>

StartsWithSlash(pat) == pat = "/out/*.log"

\* One segment of a pattern against one file name.
SegMatch(seg, name) ==
    CASE seg = "*"     -> TRUE
      [] seg = "*.log" -> Ext(name) = "log"
      [] seg = "*.txt" -> Ext(name) = "txt"
      [] OTHER         -> seg = name

IsWild(seg) == seg \in {"*", "*.log", "*.txt"}

\* Matching with separators required literally: a segment matches exactly
\* one component and "**" any number of directories.
RECURSIVE GlobMatch(_, _)
GlobMatch(segs, comps) ==
    IF segs = <<>> THEN comps = <<>>
    ELSE IF Head(segs) = "**"
    THEN \/ GlobMatch(Tail(segs), comps)
         \/ Len(comps) > 1 /\ GlobMatch(segs, Tail(comps))
    ELSE /\ comps # <<>>
         /\ SegMatch(Head(segs), Head(comps))
         /\ GlobMatch(Tail(segs), Tail(comps))

\* glob::Pattern::matches_path with default MatchOptions: "*" also matches
\* the separator, so a wildcard segment may swallow leading components.
RECURSIVE MatchesPath(_, _)
MatchesPath(segs, comps) ==
    IF segs = <<>> THEN comps = <<>>
    ELSE IF Head(segs) = "**"
    THEN \/ MatchesPath(Tail(segs), comps)
         \/ Len(comps) > 1 /\ MatchesPath(segs, Tail(comps))
    ELSE /\ comps # <<>>
         /\ \/ /\ SegMatch(Head(segs), Head(comps))
               /\ MatchesPath(Tail(segs), Tail(comps))
            \/ /\ IsWild(Head(segs))
               /\ Len(comps) > 1
               /\ MatchesPath(segs, Tail(comps))

\* One parsed .gitignore line.
GitignoreLine(pat) ==
    [neg      |-> pat = "!b.log",
     dirOnly  |-> pat = "sub/",
     anchored |-> pat \in {"sub/*.log", "**/*.log", ".git/*.log", "/out/*.log"},
     segs     |-> Segs(pat)]

LineMatches(g, comps, isDir) ==
    /\ g.dirOnly => isDir
    /\ IF g.anchored THEN GlobMatch(g.segs, comps)
       ELSE SegMatch(g.segs[1], Last(comps))

\* The last matching line decides; a "!" line re-includes.
Decision(rs, comps, isDir) ==
    LET hits == {i \in 1..Len(rs) : LineMatches(GitignoreLine(rs[i]), comps, isDir)}
    IN  IF hits = {} THEN FALSE
        ELSE LET i == CHOOSE j \in hits : \A k \in hits : k <= j
             IN  ~GitignoreLine(rs[i]).neg

\* A path is ignored if a line ignores it or one of its parent directories.
IsIgnored(rs, p) ==
    LET c == RelComps(p)
    IN  \/ Decision(rs, c, IsDir(p))
        \/ \E n \in 1..(Len(c) - 1) : Decision(rs, SubSeq(c, 1, n), TRUE)

\* Files under the root and outside .git that the walk without the ignore
\* rules yields and the walk with them does not.
GetGitIgnoredFilesInPath(ex, rs) ==
    {p \in ex : /\ IsFile(p)
                /\ UnderRoot(p)
                /\ ~HasGitComponent(RelComps(p))
                /\ IsIgnored(rs, p)}

\* The .gitignore contents the model starts from.
RuleSets == {<<>>, <<"*.log">>, <<"*.log", "!b.log">>, <<"sub/">>}

\* ------------------------------------------------------------------------
\* tracked_files.rs: the persisted specification
\* ------------------------------------------------------------------------

\* A tracked path as its text was stored: p is the file the text names (a
\* relative text is resolved against the daemon's working directory, the
\* repository root), abs tells whether the text is the absolute path.  The
\* empty text names nothing.
Rel(p) == [p |-> p, abs |-> FALSE]

Abs(p) == [p |-> p, abs |-> TRUE]

EmptyPath == [p |-> "", abs |-> FALSE]

\* TrackedFiles::default()
DefaultTracked == [marked_files |-> {}, patterns |-> <<>>]

NonEmptyText(s) == s # ""

\* A mutant of Load: the entries of the file are taken as they are.
Load_KeepEmpty(f) ==
    IF f.state # "ok" THEN DefaultTracked
    ELSE [marked_files |-> f.marked_files, patterns |-> f.patterns]

\* TrackedFiles::load: a missing or unparsable file gives the default, empty
\* entries are dropped.
Load(f) ==
    IF f.state # "ok" THEN DefaultTracked
    ELSE [marked_files |-> {e \in f.marked_files : e.p # ""},
          patterns     |-> SelectSeq(f.patterns, NonEmptyText)]

\* TrackedFiles::save
Save(t) == [state |-> "ok", marked_files |-> t.marked_files, patterns |-> t.patterns]

MissingFile == [state |-> "missing", marked_files |-> {}, patterns |-> <<>>]

CorruptFile == [state |-> "corrupt", marked_files |-> {}, patterns |-> <<>>]

\* ------------------------------------------------------------------------
\* watch.rs: the three reconciliation passes
\* ------------------------------------------------------------------------

GitIgnore == [kind |-> "GitIgnore", patterns |-> <<>>]

TrackedFilesMode == [kind |-> "TrackedFiles", patterns |-> <<>>]

PatternsMode(pats) == [kind |-> "Patterns", patterns |-> pats]

\* The mode a session derives from the loaded specification.
DeriveWatchMode_TrackedFirst(t) ==
    IF t.marked_files # {} THEN TrackedFilesMode
    ELSE IF t.patterns # <<>> THEN PatternsMode(t.patterns)
    ELSE GitIgnore

DeriveWatchMode(t) ==
    IF t.patterns # <<>> THEN PatternsMode(t.patterns)
    ELSE IF t.marked_files = {} THEN GitIgnore
    ELSE TrackedFilesMode

\* Marked files and directories under the root, not descending into .git.
FindMarkedFiles_IntoGit(ex, mk) == {p \in ex : UnderRoot(p) /\ p \in mk}

FindMarkedFiles(ex, mk) ==
    {p \in ex : /\ UnderRoot(p)
                /\ ~HasGitComponent(RelComps(p))
                /\ p \in mk}

NoReport == [mode |-> "none", added |-> 0, removed |-> 0, errors |-> 0,
             updated |-> 0, untracked |-> 0,
             adds |-> {}, rems |-> {}, fails |-> {}]

\* The outcome of a pass: the markers, the specification file and what the
\* pass printed (adds, rems and fails name the paths behind the counters).
Outcome(mode, mk, sf, adds, rems, fails, nAdded, nRemoved, nErrors, nUpdated, nUntracked) ==
    [marker |-> mk, specFile |-> sf,
     report |-> [mode |-> mode, added |-> nAdded, removed |-> nRemoved,
                 errors |-> nErrors, updated |-> nUpdated,
                 untracked |-> nUntracked,
                 adds |-> adds, rems |-> rems, fails |-> fails]]

PerformGitignoreScan_MarkAll(ex, mk, rs, fl, sf) ==
    LET walked == {p \in ex : IsFile(p) /\ UnderRoot(p) /\ ~HasGitComponent(RelComps(p))}
        toAdd  == {p \in walked : p \notin mk}
        addOk  == toAdd \ fl
    IN  Outcome("GitIgnore", mk \cup addOk, sf, addOk, {},
                {Abs(p) : p \in toAdd \cap fl},
                Cardinality(addOk), 0, Cardinality(toAdd \cap fl), 0, 0)

PerformGitignoreScan(ex, mk, rs, fl, sf) ==
    LET git_ignored == GetGitIgnoredFilesInPath(ex, rs)
        toAdd  == {p \in git_ignored : p \notin mk}
        addOk  == toAdd \ fl
        mk1    == mk \cup addOk
        toRem  == {p \in FindMarkedFiles(ex, mk1) : p \notin git_ignored}
        remOk  == toRem \ fl
        failed == (toAdd \cup toRem) \cap fl
    IN  Outcome("GitIgnore", mk1 \ remOk, sf, addOk, remOk,
                {Abs(p) : p \in failed},
                Cardinality(addOk), Cardinality(remOk),
                Cardinality(toAdd \cap fl) + Cardinality(toRem \cap fl), 0, 0)

\* The pattern as handed to glob: absolute as written, or joined to the root.
AbsPattern(pat) == IF StartsWithSlash(pat) THEN Segs(pat) ELSE RepoRoot \o Segs(pat)

\* glob(): the existing entries, files and directories, hidden or not, that
\* the pattern matches component by component.
Glob(ex, pat) == {p \in ex : GlobMatch(AbsPattern(pat), AbsComps(p))}

PerformPatternScan_AbortOnError(ex, mk, pats, fl, sf) ==
    LET files_to_mark == UNION {Glob(ex, pats[i]) : i \in 1..Len(pats)}
        toAdd  == {p \in files_to_mark : p \notin mk}
    IN  IF toAdd \cap fl # {}
        THEN Outcome("Patterns", mk, sf, {}, {}, {Abs(p) : p \in toAdd \cap fl},
                     0, 0, 1, 0, 0)
        ELSE Outcome("Patterns", mk \cup toAdd, sf, toAdd, {}, {},
                     Cardinality(toAdd), 0, 0, 0, 0)

PerformPatternScan(ex, mk, pats, fl, sf) ==
    LET files_to_mark == UNION {Glob(ex, pats[i]) : i \in 1..Len(pats)}
        toAdd  == {p \in files_to_mark : p \notin mk}
        addOk  == toAdd \ fl
        mk1    == mk \cup addOk
        matches_pattern(p) ==
            \E i \in 1..Len(pats) : MatchesPath(AbsPattern(pats[i]), AbsComps(p))
        toRem  == {p \in FindMarkedFiles(ex, mk1) :
                     p \notin files_to_mark /\ ~matches_pattern(p)}
        remOk  == toRem \ fl
        failed == (toAdd \cup toRem) \cap fl
    IN  Outcome("Patterns", mk1 \ remOk, sf, addOk, remOk,
                {Abs(p) : p \in failed},
                Cardinality(addOk), Cardinality(remOk),
                Cardinality(toAdd \cap fl) + Cardinality(toRem \cap fl), 0, 0)

\* The orders in which a hash set may be iterated.
Orders(S) ==
    {o \in [1..Cardinality(S) -> S] : \A i, j \in 1..Cardinality(S) : o[i] = o[j] => i = j}

\* A mutant of TrackedStep: an entry whose file is gone stays tracked.
TrackedStep_KeepMissing(acc, e, git_ignored, ex, fl) ==
    IF e.p \notin ex
    THEN acc
    ELSE LET should_be_ignored == e.abs /\ e.p \in git_ignored
             has_marker        == e.p \in acc.mk
         IN  IF should_be_ignored /\ ~has_marker
             THEN IF e.p \in fl
                  THEN [acc EXCEPT !.errors = @ + 1, !.fails = @ \cup {e}]
                  ELSE [acc EXCEPT !.mk = @ \cup {e.p}, !.updated = @ + 1,
                                   !.adds = @ \cup {e.p}]
             ELSE IF ~should_be_ignored /\ has_marker
             THEN IF e.p \in fl
                  THEN [acc EXCEPT !.errors = @ + 1, !.fails = @ \cup {e}]
                  ELSE [acc EXCEPT !.mk = @ \ {e.p}, !.updated = @ + 1,
                                   !.rems = @ \cup {e.p}]
             ELSE acc

\* One iteration of the loop over the tracked entries.
TrackedStep(acc, e, git_ignored, ex, fl) ==
    IF e.p \notin ex
    THEN [acc EXCEPT !.tracked = @ \ {e}, !.removed = @ + 1]
    ELSE LET should_be_ignored == e.abs /\ e.p \in git_ignored
             has_marker        == e.p \in acc.mk
         IN  IF should_be_ignored /\ ~has_marker
             THEN IF e.p \in fl
                  THEN [acc EXCEPT !.errors = @ + 1, !.fails = @ \cup {e}]
                  ELSE [acc EXCEPT !.mk = @ \cup {e.p}, !.updated = @ + 1,
                                   !.adds = @ \cup {e.p}]
             ELSE IF ~should_be_ignored /\ has_marker
             THEN IF e.p \in fl
                  THEN [acc EXCEPT !.errors = @ + 1, !.fails = @ \cup {e}]
                  ELSE [acc EXCEPT !.mk = @ \ {e.p}, !.updated = @ + 1,
                                   !.rems = @ \cup {e.p}]
             ELSE acc

RECURSIVE TrackedLoop(_, _, _, _, _, _)
TrackedLoop(acc, order, i, git_ignored, ex, fl) ==
    IF i > Len(order) THEN acc
    ELSE TrackedLoop(TrackedStep(acc, order[i], git_ignored, ex, fl),
                     order, i + 1, git_ignored, ex, fl)

\* order is the iteration order of marked_files.
PerformTrackedFilesScan(ex, mk, rs, fl, sf, order) ==
    LET tracked == Load(sf)
    IN  IF tracked.marked_files = {}
        THEN Outcome("TrackedFiles", mk, sf, {}, {}, {}, 0, 0, 0, 0, 0)
        ELSE LET git_ignored == GetGitIgnoredFilesInPath(ex, rs)
                 acc0 == [mk |-> mk, tracked |-> tracked.marked_files,
                          updated |-> 0, removed |-> 0, errors |-> 0,
                          adds |-> {}, rems |-> {}, fails |-> {}]
                 acc  == TrackedLoop(acc0, order, 1, git_ignored, ex, fl)
             IN  Outcome("TrackedFiles", acc.mk,
                         Save([tracked EXCEPT !.marked_files = acc.tracked]),
                         acc.adds, acc.rems, acc.fails,
                         0, 0, acc.errors, acc.updated, acc.removed)

\* ------------------------------------------------------------------------
\* One pass from any state of the tree, the markers and the specification
\* ------------------------------------------------------------------------

\* The number of passes run in a row.
MaxPasses == 2

\* The pattern lists a session in Patterns mode may have captured.
PatternLists == {<<"*.log">>, <<"sub/*.log">>, <<"**/*.log">>,
                 <<"/out/*.log">>, <<"*.txt", ".git/*.log">>}

\* The tracked paths the specification file may hold.
MarkedSets ==
    {{Rel("/repo/b.log")}, {Abs("/repo/b.log")},
     {Rel("/repo/b.log"), Abs("/repo/b.log")},
     {Rel("/repo/a.txt"), Abs("/repo/a.txt")},
     {Abs("/out/o.log"), Abs("/repo/sub/c.log"), EmptyPath}}

SpecFiles ==
    {MissingFile, CorruptFile}
    \cup {[state |-> "ok", marked_files |-> ms, patterns |-> <<>>] : ms \in MarkedSets}

\* The effects of a pass: the markers and the specification file it leaves
\* and the summary it prints.
ApplyPass(out) ==
    /\ marker' = out.marker
    /\ specFile' = out.specFile
    /\ report' = out.report
    /\ prevMarker' = marker
    /\ prevSpec' = specFile
    /\ passNo' = passNo + 1

LifeIdle ==
    /\ record = 0
    /\ proc = [d \in Pids |-> "unborn"]
    /\ signalled = {}
    /\ cli = [s \in Slots |-> IdleCli]
    /\ overlap = FALSE
    /\ orphan = FALSE

SessOff == [pc |-> "off", loaded |-> DefaultTracked, startMode |-> GitIgnore,
            relevant |-> FALSE]

SessIdle ==
    /\ sess = SessOff
    /\ queue = <<>>
    /\ pending = {}
    /\ missed = FALSE
    /\ changes = 0

\* No daemon of the timed loop has been started.
LoopIdle == lp = [pc |-> "off"]

\* No state file operation is under way and the index is empty.
IoIdle ==
    /\ dstat = [pc |-> "off"]
    /\ atomic = [pc |-> "off"]
    /\ trackedMem = [pc |-> "off"]
    /\ index = {}

ScanIdle ==
    /\ exists = {"/repo/a.txt", "/repo/.git/x.log", "/out/o.log"}
    /\ marker = {}
    /\ failing = {}
    /\ rules = <<>>
    /\ specFile = MissingFile
    /\ watch_mode = GitIgnore
    /\ report = NoReport
    /\ prevMarker = {}
    /\ prevSpec = MissingFile
    /\ passNo = 0

ScanInit ==
    /\ LifeIdle
    /\ SessIdle
    /\ LoopIdle
    /\ IoIdle
    /\ exists \in Trees
    /\ marker \in SUBSET exists
    /\ failing \in SetsUpTo(Paths, MaxFail)
    /\ \/ /\ watch_mode = GitIgnore
          /\ rules \in RuleSets
          /\ specFile = MissingFile
       \/ /\ watch_mode = TrackedFilesMode
          /\ rules \in {<<>>, <<"*.log">>}
          /\ specFile \in SpecFiles
       \/ /\ watch_mode \in {PatternsMode(pats) : pats \in PatternLists}
          /\ rules = <<>>
          /\ specFile = MissingFile
    /\ report = NoReport
    /\ prevMarker = marker
    /\ prevSpec = specFile
    /\ passNo = 0

\* Apply the outcome of a pass.
Apply(out) ==
    /\ passNo < MaxPasses
    /\ ApplyPass(out)
    /\ UNCHANGED <<lifeVars, loopVars, exists, failing, rules, watch_mode, sessVars>>
    /\ UNCHANGED ioVars

ScanGitIgnore ==
    /\ watch_mode.kind = "GitIgnore"
    /\ Apply(PerformGitignoreScan(exists, marker, rules, failing, specFile))

ScanTrackedFiles ==
    /\ watch_mode.kind = "TrackedFiles"
    /\ \E order \in Orders(Load(specFile).marked_files) :
         Apply(PerformTrackedFilesScan(exists, marker, rules, failing, specFile, order))

ScanPatterns ==
    /\ watch_mode.kind = "Patterns"
    /\ Apply(PerformPatternScan(exists, marker, watch_mode.patterns, failing, specFile))

\* perform_scan dispatches on the session's mode.
ScanNext ==
    \/ ScanGitIgnore
    \/ ScanTrackedFiles
    \/ ScanPatterns

SpecScan == ScanInit /\ [][ScanNext]_vars

\* ------------------------------------------------------------------------
\* lib.rs run(): Action::Watch and Action::Unwatch, command-line side
\* ------------------------------------------------------------------------

\* A new invocation starts in a free slot.  prior remembers a daemon that an
\* earlier Watch request reported as started and that is alive now.
CliBegin(s, op) ==
    /\ cli[s].pc \in {"idle", "done"}
    /\ cli' = [cli EXCEPT ![s] =
                 [op |-> op, pc |-> "read", tgt |-> 0, outcome |-> "",
                  sawStale |-> FALSE,
                  prior |-> IF op = "watch" THEN LatestLive ELSE 0]]
    /\ UNCHANGED <<record, proc, signalled, overlap, orphan>>
    /\ UNCHANGED <<fsVars, scanVars, sessVars, loopVars>>
    /\ UNCHANGED ioVars

\* The invocation's DaemonStatus::read (lib.rs:87 and lib.rs:142).
CliProbe(s) ==
    /\ cli[s].pc = "read"
    /\ LET r == DaemonStatusRead(record) IN
         cli' = [cli EXCEPT ![s] =
           CASE r = "stale" -> [@ EXCEPT !.pc = "purge", !.sawStale = TRUE]
             [] r = "some" /\ @.op = "watch" ->
                  [@ EXCEPT !.pc = "done", !.prior = 0, !.outcome = "already"]
             [] r = "some" /\ @.op = "unwatch" ->
                  [@ EXCEPT !.pc = "kill", !.tgt = record]
             [] r = "none" /\ @.op = "watch" -> [@ EXCEPT !.pc = "spawn"]
             [] r = "none" /\ @.op = "unwatch" ->
                  [@ EXCEPT !.pc = "done", !.prior = 0, !.outcome = "noDaemon"]]
    /\ UNCHANGED <<record, proc, signalled, overlap, orphan>>
    /\ UNCHANGED <<fsVars, scanVars, sessVars, loopVars>>
    /\ UNCHANGED ioVars

\* The stale branch of read: fs::remove_file, then Ok(None).
CliPurge(s) ==
    /\ cli[s].pc = "purge"
    /\ record' = 0
    /\ orphan' = (orphan \/ Orphans(proc))
    /\ cli' = [cli EXCEPT ![s] =
                 IF @.op = "watch" THEN [@ EXCEPT !.pc = "spawn"]
                 ELSE [@ EXCEPT !.pc = "done", !.prior = 0, !.outcome = "noDaemon"]]
    /\ UNCHANGED <<proc, signalled, overlap>>
    /\ UNCHANGED <<fsVars, scanVars, sessVars, loopVars>>
    /\ UNCHANGED ioVars

\* spawn_daemon, then "Started daemon watcher" and return (lib.rs:134-137).
CliSpawn(s) ==
    /\ cli[s].pc = "spawn"
    /\ \E d \in Pids :
         /\ proc[d] = "unborn"
         /\ \A e \in Pids : e < d => proc[e] # "unborn"
         /\ proc' = [proc EXCEPT ![d] = "spawned"]
         /\ cli' = [cli EXCEPT ![s] =
                      [@ EXCEPT !.pc = "done", !.prior = 0, !.outcome = "started"]]
    /\ UNCHANGED <<record, signalled, overlap, orphan>>
    /\ UNCHANGED <<fsVars, scanVars, sessVars, loopVars>>
    /\ UNCHANGED ioVars

\* stop_daemon(status.pid): the termination signal is sent (lib.rs:143).
CliKill(s) ==
    /\ cli[s].pc = "kill"
    /\ signalled' = IF Alive(cli[s].tgt) THEN signalled \cup {cli[s].tgt}
                    ELSE signalled
    /\ cli' = [cli EXCEPT ![s].pc = "remove"]
    /\ UNCHANGED <<record, proc, overlap, orphan>>
    /\ UNCHANGED <<fsVars, scanVars, sessVars, loopVars>>
    /\ UNCHANGED ioVars

\* A mutant of CliRemove: the record file is left in place.
CliRemove_KeepRecord(s) ==
    /\ cli[s].pc = "remove"
    /\ record' = record
    /\ orphan' = orphan
    /\ cli' = [cli EXCEPT ![s] =
                 [@ EXCEPT !.pc = "done", !.prior = 0, !.tgt = 0, !.outcome = "stopped"]]
    /\ UNCHANGED <<proc, signalled, overlap>>
    /\ UNCHANGED <<fsVars, scanVars, sessVars, loopVars>>
    /\ UNCHANGED ioVars

\* DaemonStatus::remove, then "Stopped daemon watcher" (lib.rs:144-145).
CliRemove(s) ==
    /\ cli[s].pc = "remove"
    /\ record' = 0
    /\ orphan' = (orphan \/ Orphans(proc))
    /\ cli' = [cli EXCEPT ![s] =
                 [@ EXCEPT !.pc = "done", !.prior = 0, !.tgt = 0, !.outcome = "stopped"]]
    /\ UNCHANGED <<proc, signalled, overlap>>
    /\ UNCHANGED <<fsVars, scanVars, sessVars, loopVars>>
    /\ UNCHANGED ioVars

\* ------------------------------------------------------------------------
\* lib.rs run(): Action::Watch with --daemon-mode, the daemon process
\* ------------------------------------------------------------------------

\* The daemon's own DaemonStatus::read (lib.rs:87): a live record makes it
\* return at once; otherwise it goes on to write its record.
DaemonProbe(d) ==
    /\ proc[d] = "spawned"
    /\ LET r == DaemonStatusRead(record) IN
         /\ proc' = [proc EXCEPT ![d] =
                       CASE r = "some" -> "refused"
                         [] r = "stale" -> "purge"
                         [] r = "none" -> "checked"]
         /\ overlap' = (overlap \/ (r # "some" /\ \E e \in Pids \ {d} : Starting(e)))
         /\ signalled' = IF r = "some" THEN signalled \ {d} ELSE signalled
    /\ UNCHANGED <<record, cli, orphan>>
    /\ UNCHANGED <<fsVars, scanVars, sessVars, loopVars>>
    /\ UNCHANGED ioVars

DaemonPurge(d) ==
    /\ proc[d] = "purge"
    /\ record' = 0
    /\ proc' = [proc EXCEPT ![d] = "checked"]
    /\ orphan' = (orphan \/ Orphans(proc'))
    /\ UNCHANGED <<signalled, cli, overlap>>
    /\ UNCHANGED <<fsVars, scanVars, sessVars, loopVars>>
    /\ UNCHANGED ioVars

\* status.write (lib.rs:118-123), then watch_repository is entered.
DaemonWrite(d) ==
    /\ proc[d] = "checked"
    /\ record' = d
    /\ proc' = [proc EXCEPT ![d] = "watching"]
    /\ UNCHANGED <<signalled, cli, overlap, orphan>>
    /\ UNCHANGED <<fsVars, scanVars, sessVars, loopVars>>
    /\ UNCHANGED ioVars

\* watch_repository returns (shutdown, or an error at start-up).
DaemonLeave(d) ==
    /\ proc[d] = "watching"
    /\ proc' = [proc EXCEPT ![d] = "exiting"]
    /\ UNCHANGED <<record, signalled, cli, overlap, orphan>>
    /\ UNCHANGED <<fsVars, scanVars, sessVars, loopVars>>
    /\ UNCHANGED ioVars

\* DaemonStatus::remove on exit (lib.rs:129), whatever the record names.
DaemonCleanup(d) ==
    /\ proc[d] = "exiting"
    /\ record' = 0
    /\ proc' = [proc EXCEPT ![d] = "dead"]
    /\ orphan' = (orphan \/ Orphans(proc'))
    /\ signalled' = signalled \ {d}
    /\ UNCHANGED <<cli, overlap>>
    /\ UNCHANGED <<fsVars, scanVars, sessVars, loopVars>>
    /\ UNCHANGED ioVars

\* The process dies without running its clean-up (killed by a signal).
DaemonCrash(d) ==
    /\ Alive(d)
    /\ proc' = [proc EXCEPT ![d] = "dead"]
    /\ signalled' = signalled \ {d}
    /\ UNCHANGED <<record, cli, overlap, orphan>>
    /\ UNCHANGED <<fsVars, scanVars, sessVars, loopVars>>
    /\ UNCHANGED ioVars

\* ------------------------------------------------------------------------
\* The lifecycle specification
\* ------------------------------------------------------------------------

LifeInit ==
    /\ LifeIdle
    /\ ScanIdle
    /\ SessIdle
    /\ LoopIdle
    /\ IoIdle

LifeNext ==
    \/ \E s \in Slots, op \in {"watch", "unwatch"} : CliBegin(s, op)
    \/ \E s \in Slots : CliProbe(s)
    \/ \E s \in Slots : CliPurge(s)
    \/ \E s \in Slots : CliSpawn(s)
    \/ \E s \in Slots : CliKill(s)
    \/ \E s \in Slots : CliRemove(s)
    \/ \E d \in Pids : DaemonProbe(d)
    \/ \E d \in Pids : DaemonPurge(d)
    \/ \E d \in Pids : DaemonWrite(d)
    \/ \E d \in Pids : DaemonLeave(d)
    \/ \E d \in Pids : DaemonCleanup(d)
    \/ \E d \in Pids : DaemonCrash(d)

SpecLife == LifeInit /\ [][LifeNext]_vars

\* ------------------------------------------------------------------------
\* Claims about the lifecycle
\* ------------------------------------------------------------------------

C2_LaterWatchReportsAlready ==
    [][\A s \in Slots :
         (/\ cli[s].op = "watch" /\ cli[s].pc = "read"
          /\ Alive(cli[s].prior)
          /\ cli'[s].pc # "read")
         => (/\ cli'[s].pc = "done" /\ cli'[s].outcome = "already"
             /\ record' = record /\ proc' = proc)]_vars

\* C3: a read that finds the recorded process gone deletes the record file
\* and reports no session, in an invocation and in a daemon start-up alike;
\* the Watch request then spawns a daemon and the Unwatch request reports
\* that no daemon is active.
C3_StaleRecordPurged ==
    /\ [][\A s \in Slots :
            /\ (/\ cli[s].pc = "read" /\ cli'[s].pc # "read"
                /\ record # 0 /\ ~Alive(record))
               => cli'[s].pc = "purge"
            /\ (cli[s].pc = "purge" /\ cli'[s].pc # "purge")
               => /\ record' = 0
                  /\ cli[s].op = "watch" => cli'[s].pc = "spawn"
                  /\ cli[s].op = "unwatch" =>
                        cli'[s].pc = "done" /\ cli'[s].outcome = "noDaemon"]_vars
    /\ [][\A d \in Pids :
            /\ (/\ proc[d] = "spawned" /\ proc'[d] \notin {"spawned", "dead"}
                /\ record # 0 /\ ~Alive(record))
               => proc'[d] = "purge"
            /\ (proc[d] = "purge" /\ proc'[d] \notin {"purge", "dead"})
               => record' = 0 /\ proc'[d] = "checked"]_vars
    /\ [](\A s \in Slots :
            (cli[s].pc = "done" /\ cli[s].sawStale)
            => /\ cli[s].op = "watch" => cli[s].outcome = "started"
               /\ cli[s].op = "unwatch" => cli[s].outcome = "noDaemon")

\* A daemon died leaving its record, and the next Watch request purged the
\* record and started a new daemon.
C3_Witness ==
    \E s \in Slots, d, e \in Pids :
        /\ cli[s].pc = "done" /\ cli[s].sawStale /\ cli[s].op = "watch"
        /\ proc[d] = "dead" /\ Alive(e) /\ record \in {0, e}

\* ------------------------------------------------------------------------
\* watch.rs watch_repository: one watch session
\* ------------------------------------------------------------------------

\* The number of changes made to the tree, the rules and the specification.
MaxChanges == 2

\* The components of the path an event names.
EventComps(path) ==
    CASE path = "/repo/.gitignore"      -> <<"repo", ".gitignore">>
      [] path = "/repo/sub/.gitignore"  -> <<"repo", "sub", ".gitignore">>
      [] path = "/repo/.git"            -> <<"repo", ".git">>
      [] path = "/repo/.dbx-ignore/tmp" -> <<"repo", ".dbx-ignore", "tmp">>
      [] OTHER                          -> AbsComps(path)

\* event.paths.first().cloned().unwrap_or_default()
FirstPath(event) == IF event.paths = <<>> THEN "" ELSE event.paths[1]

ShouldTriggerRescan_RemoveOnly(event, mode) ==
    /\ event.kind \in {"Create", "Modify", "Remove"}
    /\ IF mode.kind = "Patterns"
       THEN event.kind = "Remove"
       ELSE \E i \in 1..Len(event.paths) :
               \/ Last(EventComps(event.paths[i])) = ".gitignore"
               \/ HasGitComponent(EventComps(event.paths[i]))

ShouldTriggerRescan_FirstPathOnly(event, mode) ==
    /\ event.kind \in {"Create", "Modify", "Remove"}
    /\ IF mode.kind = "Patterns"
       THEN event.kind \in {"Create", "Remove"}
       ELSE /\ event.paths # <<>>
            /\ \/ Last(EventComps(event.paths[1])) = ".gitignore"
               \/ HasGitComponent(EventComps(event.paths[1]))

ShouldTriggerRescan(event, mode) ==
    /\ event.kind \in {"Create", "Modify", "Remove"}
    /\ IF mode.kind = "Patterns"
       THEN event.kind \in {"Create", "Remove"}
       ELSE \E i \in 1..Len(event.paths) :
               \/ Last(EventComps(event.paths[i])) = ".gitignore"
               \/ HasGitComponent(EventComps(event.paths[i]))

\* perform_scan
PerformScan(mode, ex, mk, rs, fl, sf, order) ==
    CASE mode.kind = "TrackedFiles" -> PerformTrackedFilesScan(ex, mk, rs, fl, sf, order)
      [] mode.kind = "GitIgnore"    -> PerformGitignoreScan(ex, mk, rs, fl, sf)
      [] mode.kind = "Patterns"     -> PerformPatternScan(ex, mk, mode.patterns, fl, sf)

\* The mode a session that re-read the specification would use.
SessionMode_Reloaded == DeriveWatchMode(Load(specFile))

\* The watch_mode local of watch_repository, bound once before the loop.
SessionMode == watch_mode

\* The specification files a session may find or see written.
SessSpecFiles ==
    {MissingFile, CorruptFile,
     [state |-> "ok", marked_files |-> {Rel("/repo/b.log")}, patterns |-> <<>>],
     [state |-> "ok", marked_files |-> {Abs("/repo/b.log")}, patterns |-> <<"">>],
     [state |-> "ok", marked_files |-> {}, patterns |-> <<"*.log">>],
     [state |-> "ok", marked_files |-> {Rel("/repo/b.log")}, patterns |-> <<"*.log">>],
     [state |-> "ok", marked_files |-> {EmptyPath}, patterns |-> <<"">>]}

\* The specifications the command line may save while a session runs.
SavedSpecFiles ==
    {[state |-> "ok", marked_files |-> {Abs("/repo/b.log")}, patterns |-> <<>>],
     [state |-> "ok", marked_files |-> {Rel("/repo/b.log")}, patterns |-> <<"*.txt">>]}

SessInit ==
    /\ LifeIdle
    /\ SessIdle
    /\ LoopIdle
    /\ IoIdle
    /\ exists \in {{"/repo/a.txt", "/repo/.git/x.log", "/out/o.log"},
                   {"/repo/a.txt", "/repo/b.log", "/repo/.git/x.log", "/out/o.log"}}
    /\ marker \in SUBSET (exists \cap {"/repo/b.log"})
    /\ failing = {}
    /\ rules \in {<<>>, <<"*.log">>}
    /\ specFile \in SessSpecFiles
    /\ watch_mode = GitIgnore
    /\ report = NoReport
    /\ prevMarker = marker
    /\ prevSpec = specFile
    /\ passNo = 0

\* TrackedFiles::load and the choice of the mode.
SessStart ==
    /\ sess.pc = "off"
    /\ watch_mode' = DeriveWatchMode(Load(specFile))
    /\ sess' = [sess EXCEPT !.pc = "derived", !.loaded = Load(specFile),
                            !.startMode = DeriveWatchMode(Load(specFile))]
    /\ UNCHANGED <<lifeVars, loopVars, fsVars, report, prevMarker, prevSpec, passNo,
                   queue, pending, missed, changes>>
    /\ UNCHANGED ioVars

\* The initial scan.
SessScan0 ==
    /\ sess.pc = "derived"
    /\ \E order \in Orders(Load(specFile).marked_files) :
         ApplyPass(PerformScan(SessionMode, exists, marker, rules, failing, specFile, order))
    /\ sess' = [sess EXCEPT !.pc = "scanned"]
    /\ missed' = FALSE
    /\ UNCHANGED <<lifeVars, loopVars, exists, failing, rules, watch_mode, queue, pending, changes>>
    /\ UNCHANGED ioVars

\* The watcher is created and registered on the repository root.
SessWatch ==
    /\ sess.pc = "scanned"
    /\ sess' = [sess EXCEPT !.pc = "loop"]
    /\ UNCHANGED <<lifeVars, loopVars, fsVars, scanVars, queue, pending, missed, changes>>
    /\ UNCHANGED ioVars

\* rx.recv(): one event is taken and filtered.
LoopRecv ==
    /\ sess.pc = "loop"
    /\ queue # <<>>
    /\ LET event == Head(queue)
           hit   == ShouldTriggerRescan(event, SessionMode)
       IN  /\ pending' = IF hit THEN pending \cup {FirstPath(event)} ELSE pending
           /\ sess' = [sess EXCEPT !.relevant = hit]
    /\ queue' = Tail(queue)
    /\ UNCHANGED <<lifeVars, loopVars, fsVars, scanVars, missed, changes>>
    /\ UNCHANGED ioVars

\* debounce_timer.tick() with pending events: a pass, then the set is cleared.
LoopTick ==
    /\ sess.pc = "loop"
    /\ pending # {}
    /\ \E order \in Orders(Load(specFile).marked_files) :
         ApplyPass(PerformScan(SessionMode, exists, marker, rules, failing, specFile, order))
    /\ pending' = {}
    /\ missed' = FALSE
    /\ UNCHANGED <<lifeVars, loopVars, exists, failing, rules, watch_mode, sess, queue, changes>>
    /\ UNCHANGED ioVars

\* The kinds of change the relevance filter of a mode lets through.
Admitted(event, mode) ==
    IF mode.kind = "Patterns"
    THEN event.kind \in {"Create", "Remove"}
    ELSE \E i \in 1..Len(event.paths) :
            \/ Last(EventComps(event.paths[i])) = ".gitignore"
            \/ HasGitComponent(EventComps(event.paths[i]))

\* A change outside the session: the watcher, once registered, queues its
\* event.  missed records a change no pass will follow: one made between the
\* initial scan and the registration, or one the filter does not admit.
Notify(event) ==
    /\ changes < MaxChanges
    /\ changes' = changes + 1
    /\ queue' = IF sess.pc = "loop" THEN Append(queue, event) ELSE queue
    /\ missed' = (\/ missed
                  \/ sess.pc = "scanned"
                  \/ sess.pc = "loop" /\ ~Admitted(event, sess.startMode))
    /\ UNCHANGED <<lifeVars, loopVars, failing, scanVars, sess, pending>>
    /\ UNCHANGED ioVars

ChangePaths == {"/repo/b.log", "/repo/.git/x.log"}

CreateFile(p) ==
    /\ p \notin exists
    /\ exists' = exists \cup {p}
    /\ Notify([kind |-> "Create", paths |-> <<p>>])
    /\ UNCHANGED <<marker, rules, specFile>>

RemoveFile(p) ==
    /\ p \in exists
    /\ exists' = exists \ {p}
    /\ marker' = marker \ {p}
    /\ Notify([kind |-> "Remove", paths |-> <<p>>])
    /\ UNCHANGED <<rules, specFile>>

EditRules(rs) ==
    /\ rs # rules
    /\ rules' = rs
    /\ Notify([kind |-> "Modify", paths |-> <<"/repo/.gitignore">>])
    /\ UNCHANGED <<exists, marker, specFile>>

\* The command line saves the specification: the temporary file appears in
\* .dbx-ignore before it is renamed over tracked_files.json.
SpecChange(sf) ==
    /\ sf # specFile
    /\ specFile' = sf
    /\ Notify([kind |-> "Create", paths |-> <<"/repo/.dbx-ignore/tmp">>])
    /\ UNCHANGED <<exists, marker, rules>>

SessNext ==
    \/ SessStart
    \/ SessScan0
    \/ SessWatch
    \/ LoopRecv
    \/ LoopTick
    \/ \E p \in ChangePaths : CreateFile(p)
    \/ \E p \in ChangePaths : RemoveFile(p)
    \/ \E rs \in {<<>>, <<"*.log">>} : EditRules(rs)
    \/ \E sf \in SavedSpecFiles : SpecChange(sf)

SessionSteps == SessStart \/ SessScan0 \/ SessWatch \/ LoopRecv \/ LoopTick

\* The session's own steps are taken whenever they stay possible; changes
\* from outside may stop at any time.
SpecSession == SessInit /\ [][SessNext]_vars /\ WF_vars(SessionSteps)

\* ------------------------------------------------------------------------
\* Properties of one reconciliation pass (SpecScan)
\* ------------------------------------------------------------------------

\* The paths under the repository root and outside .git.
Inside == {p \in Paths : UnderRoot(p) /\ ~HasGitComponent(RelComps(p))}

\* desired in GitIgnore mode: the files the ignore rules exclude.
Desired == GetGitIgnoredFilesInPath(exists, rules)

\* C7: a second pass run right after a completed pass, nothing having
\* changed in between, reports zero additions and zero removals, whatever
\* the mode.
C7_SecondPassIdle ==
    passNo >= 2 =>
        /\ report.added = 0
        /\ report.removed = 0
        /\ report.updated = 0

\* C8: after a GitIgnore pass the markers added are exactly the desired
\* paths that were not marked before and on which the store did not fail;
\* every marked path was desired or marked before, every desired path is
\* marked unless the store failed on it.  With the one rule "*.log", b.log
\* ends marked and a.txt does not get a marker.
C8_GitIgnoreMarksDesired ==
    report.mode = "GitIgnore" =>
        /\ report.adds = (Desired \ prevMarker) \ failing
        /\ marker \subseteq Desired \cup prevMarker
        /\ \A p \in Desired : p \in marker \/ p \in failing
        /\ (rules = <<"*.log">> /\ "/repo/b.log" \in exists
              /\ "/repo/b.log" \notin failing)
             => /\ "/repo/b.log" \in marker
                /\ "/repo/a.txt" \notin report.adds
                /\ "/repo/a.txt" \in marker => "/repo/a.txt" \in failing

C8_Witness ==
    /\ report.mode = "GitIgnore"
    /\ rules = <<"*.log">>
    /\ report.adds = {"/repo/b.log"}
    /\ "/repo/a.txt" \notin marker

ShouldBeIgnored(e) == e.abs /\ e.p \in Desired

\* The paths, in TrackedFiles mode the tracked texts, whose marker a pass
\* had to change and on which the store fails.
FailedPaths ==
    CASE report.mode = "GitIgnore" ->
           {Abs(p) : p \in {q \in failing :
               \/ q \in Desired /\ q \notin prevMarker
               \/ q \in FindMarkedFiles(exists, prevMarker) /\ q \notin Desired}}
      [] report.mode = "Patterns" ->
           {Abs(p) : p \in {q \in failing :
               LET globbed == \E i \in 1..Len(watch_mode.patterns) :
                                 q \in Glob(exists, watch_mode.patterns[i])
                   loose   == \E i \in 1..Len(watch_mode.patterns) :
                                 MatchesPath(AbsPattern(watch_mode.patterns[i]), AbsComps(q))
               IN  \/ globbed /\ q \notin prevMarker
                   \/ /\ q \in FindMarkedFiles(exists, prevMarker)
                      /\ ~globbed /\ ~loose}}
      [] report.mode = "TrackedFiles" ->
           {e \in Load(prevSpec).marked_files :
               /\ e.p \in exists
               /\ e.p \in failing
               /\ ShouldBeIgnored(e) # (e.p \in prevMarker)}
      [] OTHER -> {}

C4_ModeDerivation ==
    [][(sess.pc = "off" /\ sess'.pc # "off") =>
         LET ok      == specFile.state = "ok"
             hasPat  == ok /\ \E i \in 1..Len(specFile.patterns) : specFile.patterns[i] # ""
             hasPath == ok /\ \E e \in specFile.marked_files : e.p # ""
         IN  /\ hasPat => /\ watch_mode'.kind = "Patterns"
                          /\ watch_mode'.patterns = SelectSeq(specFile.patterns, NonEmptyText)
             /\ (~hasPat /\ hasPath) => watch_mode' = TrackedFilesMode
             /\ (~hasPat /\ ~hasPath) => watch_mode' = GitIgnore
             /\ sess'.startMode = watch_mode']_vars

C4_Witness ==
    /\ sess.pc = "derived"
    /\ watch_mode = PatternsMode(<<"*.log">>)
    /\ sess.loaded.marked_files # {}

\* C5: from the start of a session on the mode never changes; every pass
\* is the pass of the start-up mode on the current state and every event is
\* filtered by the start-up mode, whatever events arrive and however the
\* persisted specification is changed meanwhile.
C5_ModeFixed ==
    [][sess.pc # "off" =>
         /\ watch_mode' = watch_mode
         /\ sess'.startMode = sess.startMode
         /\ passNo' # passNo =>
              /\ report'.mode = sess.startMode.kind
              /\ \E order \in Orders(Load(specFile).marked_files) :
                   LET out == PerformScan(sess.startMode, exists, marker, rules,
                                          failing, specFile, order)
                   IN  marker' = out.marker /\ report' = out.report
         /\ Len(queue') < Len(queue) =>
              sess'.relevant = ShouldTriggerRescan(Head(queue), sess.startMode)]_vars

C5_Witness ==
    /\ sess.pc = "loop"
    /\ passNo >= 2
    /\ changes >= 1
    /\ DeriveWatchMode(Load(specFile)).kind # watch_mode.kind
    /\ report.mode = watch_mode.kind

\* The marked paths under the repository root.
MarkedUnderRoot == {p \in marker : UnderRoot(p)}

\* The desired set of the session's mode.
DesiredOfMode ==
    CASE watch_mode.kind = "GitIgnore" -> Desired
      [] watch_mode.kind = "Patterns" ->
           UNION {Glob(exists, watch_mode.patterns[i]) : i \in 1..Len(watch_mode.patterns)}
      [] watch_mode.kind = "TrackedFiles" ->
           {e.p : e \in Load(specFile).marked_files} \cap Desired

Quiescent == sess.pc = "loop" /\ queue = <<>> /\ pending = {}

\* What a pass of the session's mode establishes.
ConsistentWithMode ==
    CASE watch_mode.kind = "GitIgnore" ->
           FindMarkedFiles(exists, marker) = Desired
      [] watch_mode.kind = "Patterns" ->
           /\ DesiredOfMode \subseteq marker
           /\ \A p \in FindMarkedFiles(exists, marker) :
                \E i \in 1..Len(watch_mode.patterns) :
                   MatchesPath(AbsPattern(watch_mode.patterns[i]), AbsComps(p))
      [] watch_mode.kind = "TrackedFiles" ->
           \A e \in Load(specFile).marked_files :
              /\ e.p \in exists
              /\ \E f \in Load(specFile).marked_files :
                    f.p = e.p /\ (e.p \in marker <=> ShouldBeIgnored(f))

DebounceTicks == 2

\* The number of events the watcher delivers.
MaxEvents == 2

\* The daemon process before status.write.  term tells what the build does
\* with a signal: "handled" when the ctrlc handler takes SIGINT and SIGTERM
\* (the crate built with its termination feature), "default" when it takes
\* SIGINT only and the default action of SIGTERM ends the process, "abort"
\* when a panic aborts the process.  The counters and flags after result
\* are history.
LoopStart(repoOk, term) ==
    [pc |-> "start", timer |-> 0, quiet |-> DebounceTicks, shutdown |-> FALSE,
     sig |-> "none", handler |-> "unset", term |-> term, result |-> "",
     repoOk |-> repoOk, opened |-> "no", registered |-> FALSE,
     events |-> 0, taken |-> 0, dlv |-> 0, rcv |-> 0, covered |-> 0,
     win |-> 0, erred |-> FALSE, lastErr |-> FALSE,
     cut |-> FALSE, during |-> FALSE]

LoopInit ==
    /\ LifeIdle
    /\ SessIdle
    /\ exists = {"/repo/a.txt", "/repo/b.log", "/repo/.git/x.log", "/out/o.log"}
    /\ marker = {}
    /\ failing = {}
    /\ rules = <<"*.log">>
    /\ specFile = MissingFile
    /\ watch_mode = GitIgnore
    /\ report = NoReport
    /\ prevMarker = {}
    /\ prevSpec = MissingFile
    /\ passNo = 0
    /\ lp \in {LoopStart(ok, term) : ok \in BOOLEAN, term \in {"handled", "default", "abort"}}
    /\ IoIdle

DaemonPid == 1

\* The check that ends every iteration of the loop.
AfterIteration(l) == IF l.shutdown THEN [l EXCEPT !.pc = "leaving", !.result = "ok"]
                     ELSE [l EXCEPT !.pc = "loop"]

\* status.write(&repo_path)
RunDaemonWrite ==
    /\ lp.pc = "start"
    /\ record' = DaemonPid
    /\ lp' = [lp EXCEPT !.pc = "written"]
    /\ UNCHANGED <<proc, signalled, cli, overlap, orphan, fsVars, scanVars, sessVars>>
    /\ UNCHANGED ioVars

\* Repository::open, TrackedFiles::load and the choice of the mode.
WatchOpen ==
    /\ lp.pc = "written"
    /\ IF lp.repoOk
       THEN /\ lp' = [lp EXCEPT !.pc = "opened", !.opened = "ok"]
            /\ watch_mode' = DeriveWatchMode(Load(specFile))
       ELSE /\ lp' = [lp EXCEPT !.pc = "leaving", !.opened = "failed", !.result = "err"]
            /\ UNCHANGED watch_mode
    /\ UNCHANGED <<lifeVars, fsVars, report, prevMarker, prevSpec, passNo, sessVars>>
    /\ UNCHANGED ioVars

\* perform_scan fails when the repository cannot be discovered; nothing has
\* been marked or unmarked by then.
ScanFails(l) == ~l.repoOk /\ watch_mode.kind \in {"GitIgnore", "TrackedFiles"}

\* The initial scan; its error ends watch_repository.
WatchScan0_Skipped ==
    /\ lp.pc = "opened"
    /\ lp' = [lp EXCEPT !.pc = "scanned"]
    /\ UNCHANGED <<lifeVars, fsVars, scanVars, sessVars>>
    /\ UNCHANGED ioVars

WatchScan0 ==
    /\ lp.pc = "opened"
    /\ IF ScanFails(lp)
       THEN /\ lp' = [lp EXCEPT !.pc = "leaving", !.result = "err"]
            /\ UNCHANGED <<marker, specFile, report, prevMarker, prevSpec, passNo>>
       ELSE /\ lp' = [lp EXCEPT !.pc = "scanned"]
            /\ \E order \in Orders(Load(specFile).marked_files) :
                 \E out \in {PerformScan(watch_mode, exists, marker, rules, failing,
                                            specFile, order)} :
                     ApplyPass(out)
    /\ UNCHANGED <<lifeVars, exists, failing, rules, watch_mode, sessVars>>
    /\ UNCHANGED ioVars

\* The channel, the watcher, the Ctrl+C handler and the interval timer are
\* set up; the first tick of the interval is due at once.
WatchRegister ==
    /\ lp.pc = "scanned"
    /\ lp' = [lp EXCEPT !.pc = "loop", !.registered = TRUE, !.handler = "armed",
                        !.timer = 0]
    /\ UNCHANGED <<lifeVars, fsVars, scanVars, sessVars>>
    /\ UNCHANGED ioVars

\* The rx.recv() branch of select!.
SelectRecv ==
    /\ lp.pc = "loop"
    /\ queue # <<>>
    /\ LET event == Head(queue)
           hit   == ShouldTriggerRescan(event, watch_mode)
           l1    == [lp EXCEPT !.taken = @ + 1]
           l2    == IF hit
                    THEN [l1 EXCEPT !.rcv = @ + 1, !.quiet = 0,
                                    !.win = IF lp.quiet >= DebounceTicks THEN 0 ELSE @]
                    ELSE l1
       IN  /\ pending' = IF hit THEN pending \cup {FirstPath(event)} ELSE pending
           /\ lp' = AfterIteration(l2)
    /\ queue' = Tail(queue)
    /\ UNCHANGED <<lifeVars, fsVars, scanVars, sess, missed, changes>>
    /\ UNCHANGED ioVars

\* A mutant of SelectTick: every tick begins a pass.
SelectTick_AlwaysPass ==
    /\ lp.pc = "loop"
    /\ lp.timer <= 0
    /\ LET l1 == [lp EXCEPT !.timer = @ + DebounceTicks]
       IN  lp' = [l1 EXCEPT !.pc = "inpass", !.covered = lp.rcv, !.win = @ + 1]
    /\ UNCHANGED <<lifeVars, fsVars, scanVars, sessVars>>
    /\ UNCHANGED ioVars

\* The debounce_timer.tick() branch: the interval is rearmed one period
\* after the tick was due; with pending events a pass begins.
SelectTick ==
    /\ lp.pc = "loop"
    /\ lp.timer <= 0
    /\ LET l1 == [lp EXCEPT !.timer = @ + DebounceTicks]
       IN  lp' = IF pending # {}
                 THEN [l1 EXCEPT !.pc = "inpass", !.covered = lp.rcv,
                                 !.win = @ + 1]
                 ELSE AfterIteration(l1)
    /\ UNCHANGED <<lifeVars, fsVars, scanVars, sessVars>>
    /\ UNCHANGED ioVars

\* The pass of a tick ends: an error is printed, the pending set is cleared
\* either way and the loop goes on.
PassEnd_AbortOnError ==
    /\ lp.pc = "inpass"
    /\ IF ScanFails(lp)
       THEN /\ lp' = [lp EXCEPT !.pc = "leaving", !.result = "err", !.erred = TRUE,
                                !.lastErr = TRUE]
            /\ UNCHANGED <<marker, specFile, report, prevMarker, prevSpec, passNo>>
       ELSE /\ lp' = AfterIteration([lp EXCEPT !.lastErr = FALSE])
            /\ \E order \in Orders(Load(specFile).marked_files) :
                 \E out \in {PerformScan(watch_mode, exists, marker, rules, failing,
                                            specFile, order)} :
                     ApplyPass(out)
    /\ pending' = {}
    /\ UNCHANGED <<lifeVars, exists, failing, rules, watch_mode, sess, queue,
                   missed, changes>>
    /\ UNCHANGED ioVars

PassEnd ==
    /\ lp.pc = "inpass"
    /\ IF ScanFails(lp)
       THEN /\ lp' = AfterIteration([lp EXCEPT !.erred = TRUE, !.lastErr = TRUE])
            /\ UNCHANGED <<marker, specFile, report, prevMarker, prevSpec, passNo>>
       ELSE /\ lp' = AfterIteration([lp EXCEPT !.lastErr = FALSE])
            /\ \E order \in Orders(Load(specFile).marked_files) :
                 \E out \in {PerformScan(watch_mode, exists, marker, rules, failing,
                                            specFile, order)} :
                     ApplyPass(out)
    /\ pending' = {}
    /\ UNCHANGED <<lifeVars, exists, failing, rules, watch_mode, sess, queue,
                   missed, changes>>
    /\ UNCHANGED ioVars

\* DaemonStatus::remove once watch_repository has returned.
DaemonReturn_KeepRecord ==
    /\ lp.pc = "leaving"
    /\ lp' = [lp EXCEPT !.pc = "returned"]
    /\ UNCHANGED <<lifeVars, fsVars, scanVars, sessVars>>
    /\ UNCHANGED ioVars

DaemonReturn ==
    /\ lp.pc = "leaving"
    /\ record' = 0
    /\ lp' = [lp EXCEPT !.pc = "returned"]
    /\ UNCHANGED <<proc, signalled, cli, overlap, orphan, fsVars, scanVars, sessVars>>
    /\ UNCHANGED ioVars

\* One unit of time passes.  The loop takes a ready branch of select! at
\* once, so time passes in the loop only while nothing is ready; it passes
\* freely while a pass runs.
Elapse ==
    /\ lp.pc \in {"loop", "inpass"}
    /\ lp.pc = "loop" => (lp.timer > 0 /\ queue = <<>>)
    /\ lp' = [lp EXCEPT
                !.timer = IF @ > 0 - DebounceTicks THEN @ - 1 ELSE @,
                !.quiet = IF @ < DebounceTicks THEN @ + 1 ELSE @]
    /\ UNCHANGED <<lifeVars, fsVars, scanVars, sessVars>>
    /\ UNCHANGED ioVars

\* The watcher callback forwards an event into the channel.
Deliver(event, l) ==
    /\ l.events < MaxEvents
    /\ queue' = IF l.registered THEN Append(queue, event) ELSE queue
    /\ lp' = [l EXCEPT !.events = @ + 1,
                       !.dlv = IF l.registered /\ ShouldTriggerRescan(event, watch_mode)
                               THEN @ + 1 ELSE @,
                       !.during = @ \/ (l.pc = "inpass"
                                          /\ ShouldTriggerRescan(event, watch_mode))]
    /\ UNCHANGED <<lifeVars, fsVars, scanVars, sess, pending, missed, changes>>
    /\ UNCHANGED ioVars

\* A file is written or the rule file edited while the watcher is registered.
EventArrive(event) ==
    /\ lp.pc \in {"loop", "inpass"}
    /\ Deliver(event, lp)

\* The .git directory is taken away or put back.
RepoChange ==
    /\ lp.pc \in {"opened", "scanned", "loop", "inpass"}
    /\ Deliver([kind |-> IF lp.repoOk THEN "Remove" ELSE "Create",
                paths |-> <<"/repo/.git">>],
               [lp EXCEPT !.repoOk = ~@])

\* A signal reaches the process once the handler is installed.  SIGTERM in
\* a build whose handler does not take it ends the process.  Otherwise the
\* handler runs on the ctrlc thread, where tokio::spawn has no runtime and
\* panics: the task that would set the shutdown flag is never created, and
\* in a build whose panics abort the process ends.
Signal(kind) ==
    /\ lp.pc \in {"loop", "inpass"}
    /\ lp.sig = "none"
    /\ lp' = IF (kind = "TERM" /\ lp.term = "default") \/ lp.term = "abort"
             THEN [lp EXCEPT !.sig = kind, !.pc = "killed",
                             !.cut = (lp.pc = "inpass")]
             ELSE [lp EXCEPT !.sig = kind, !.handler = "panicked"]
    /\ UNCHANGED <<lifeVars, fsVars, scanVars, sessVars>>
    /\ UNCHANGED ioVars

LoopEvents == {[kind |-> "Create", paths |-> <<"/repo/a.txt">>],
               [kind |-> "Modify", paths |-> <<"/repo/.gitignore">>]}

LoopSteps ==
    \/ RunDaemonWrite
    \/ WatchOpen
    \/ WatchScan0
    \/ WatchRegister
    \/ SelectRecv
    \/ SelectTick
    \/ Elapse
    \/ PassEnd
    \/ DaemonReturn

LoopNext ==
    \/ LoopSteps
    \/ \E event \in LoopEvents : EventArrive(event)
    \/ RepoChange
    \/ \E kind \in {"INT", "TERM"} : Signal(kind)

\* The process and the clock keep going; events and signals may stop.
SpecLoop == LoopInit /\ [][LoopNext]_vars /\ WF_vars(LoopSteps)

\* ------------------------------------------------------------------------
\* Properties of the timed event loop (SpecLoop)
\* ------------------------------------------------------------------------

\* C11: the relevant events of one debounce window, which a relevant event
\* opens and which stays open until a full debounce duration has passed
\* without another one, cause one pass: no second pass begins in a window.
C11_OnePassPerWindow == lp.win <= 1

\* C12: an event-triggered pass begins only when a full debounce duration
\* has passed since the most recent relevant event was received.
C12_QuietBeforePass ==
    [][(lp.pc = "loop" /\ lp'.pc = "inpass") => lp.quiet >= DebounceTicks]_vars

\* C13: every relevant event delivered to a session in its loop, also one
\* delivered while a pass runs, is followed by a pass that begins after the
\* event was received, unless the process is killed first.
C13_NoEventDropped ==
    \A k \in 1..MaxEvents : (lp.dlv >= k) ~> (lp.covered >= k)

\* What holds of C13: as long as the process is not ended by a signal every
\* relevant event delivered in the loop is followed by a pass that begins
\* after it was received.
C13_CoveredWhileAlive ==
    \A k \in 1..MaxEvents :
       (lp.dlv >= k) ~> (lp.covered >= k \/ lp.pc = "killed")

\* An event delivered while a pass ran was covered by a later pass.
C13_DuringPassCovered ==
    /\ lp.during
    /\ lp.pc = "loop"
    /\ lp.dlv = 2
    /\ lp.covered = 2
    /\ passNo >= 2

\* C14: as long as the initial pass has not completed no watch is
\* registered, no event is queued or consumed and the session is not in
\* its loop.
C14_InitialPassFirst ==
    passNo = 0 =>
        /\ ~lp.registered
        /\ lp.pc \notin {"loop", "inpass"}
        /\ lp.taken = 0
        /\ queue = <<>>

C14_Witness ==
    /\ lp.pc = "loop"
    /\ lp.registered
    /\ passNo = 1
    /\ "/repo/b.log" \in marker
    /\ lp.taken = 0

\* C15: a pass of the loop that returns an error leaves the session in its
\* loop with the pending set cleared; the loop is left only by a step that
\* follows a shutdown signal; and after an error every relevant event is
\* still followed by a pass.
C15_ErrorsKeepLoop ==
    /\ [][(lp.pc = "inpass" /\ ScanFails(lp) /\ lp'.pc \notin {"inpass", "killed"})
            => (lp'.pc = "loop" /\ pending' = {} /\ marker' = marker)]_vars
    /\ [][(lp.pc \in {"loop", "inpass"} /\ lp'.pc \notin {"loop", "inpass"})
            => lp'.sig # "none"]_vars
    /\ \A k \in 1..MaxEvents :
          (lp.erred /\ lp.dlv >= k) ~> (lp.covered >= k \/ lp.pc = "killed")

C15_Witness ==
    /\ lp.erred
    /\ ~lp.lastErr
    /\ lp.pc = "loop"
    /\ lp.covered = 2
    /\ passNo >= 2

\* C16: when the repository cannot be opened the start fails with an error
\* before any pass, any marker change and any watch registration; the
\* record written for the start is there until the process removes it, and
\* it is removed when the process returns.
C16_OpenFailure ==
    lp.opened = "failed" =>
        /\ lp.result = "err"
        /\ passNo = 0
        /\ marker = {}
        /\ ~lp.registered
        /\ lp.pc \in {"leaving", "returned"}
        /\ lp.pc = "leaving" => record = DaemonPid
        /\ lp.pc = "returned" => record = 0

C16_Witness ==
    /\ lp.opened = "failed"
    /\ lp.pc = "returned"
    /\ lp.result = "err"
    /\ record = 0

\* C17: once a shutdown signal has been delivered to a running session the
\* process leaves its loop, removes the record and returns.
C17_SignalEndsSession == (lp.sig # "none") ~> (lp.pc = "returned" /\ record = 0)

\* C18: a session that has ended after a shutdown signal has begun a pass
\* after every relevant event it received and was not stopped inside a
\* pass.
C18_PendingPassBeforeExit ==
    (lp.sig # "none" /\ lp.pc \in {"killed", "returned"}) =>
        (lp.covered = lp.rcv /\ ~lp.cut)

\* C19: a signal the handler takes puts a shutdown message on the queue of
\* the loop and changes nothing else the loop owns.
C19_ShutdownViaQueue ==
    [][(lp.sig = "none" /\ lp'.sig # "none" /\ lp'.pc # "killed") =>
         /\ queue' = Append(queue, [kind |-> "Shutdown", paths |-> <<>>])
         /\ lp'.shutdown = lp.shutdown
         /\ pending' = pending]_vars

\* ------------------------------------------------------------------------
\* The relevance filter on every kind of event (SpecFilter)
\* ------------------------------------------------------------------------

\* The kinds of event the watcher reports.
EventKinds == {"Any", "Access", "Create", "Modify", "Remove", "Other"}

\* The paths an event may name.
FilterPaths == {"/repo/a.txt", "/repo/.gitignore", "/repo/sub/.gitignore",
                "/repo/.git", "/repo/.git/x.log"}

\* The number of paths one event names.
MaxEventPaths == 2

SeqsUpTo(S, n) == UNION {[1..k -> S] : k \in 0..n}

\* A session in its loop, in any mode, with any one event queued.
FilterInit ==
    /\ LifeIdle
    /\ LoopIdle
    /\ IoIdle
    /\ exists = {"/repo/a.txt", "/repo/.git/x.log", "/out/o.log"}
    /\ marker = {}
    /\ failing = {}
    /\ rules = <<>>
    /\ specFile = MissingFile
    /\ watch_mode \in {GitIgnore, TrackedFilesMode, PatternsMode(<<"*.log">>)}
    /\ sess = [SessOff EXCEPT !.pc = "loop", !.startMode = watch_mode]
    /\ report = NoReport
    /\ prevMarker = {}
    /\ prevSpec = MissingFile
    /\ passNo = 0
    /\ queue \in {<<[kind |-> k, paths |-> ps]>> :
                     k \in EventKinds, ps \in SeqsUpTo(FilterPaths, MaxEventPaths)}
    /\ pending = {}
    /\ missed = FALSE
    /\ changes = 0

FilterNext == LoopRecv

SpecFilter == FilterInit /\ [][FilterNext]_vars

\* C20: the event taken from the queue triggers a rescan, in Patterns mode,
\* exactly when its kind is Create or Remove; in the other modes exactly
\* when its kind is Create, Modify or Remove and one of its paths is a
\* .gitignore file or lies in .git; an event of another kind never does.
\* A triggering event puts its first path into the pending set.
C20_RelevanceFilter ==
    [][(queue # <<>> /\ queue' = Tail(queue)) =>
         LET ev       == Head(queue)
             ruleFile == {"/repo/.gitignore", "/repo/sub/.gitignore"}
             inGit    == {"/repo/.git", "/repo/.git/x.log"}
             touches  == \E i \in 1..Len(ev.paths) : ev.paths[i] \in ruleFile \cup inGit
             expected == IF sess.startMode.kind = "Patterns"
                         THEN ev.kind \in {"Create", "Remove"}
                         ELSE ev.kind \in {"Create", "Modify", "Remove"} /\ touches
         IN  /\ sess'.relevant = expected
             /\ (pending' # {}) = expected]_vars

C20_Witness ==
    /\ queue = <<>>
    /\ sess.startMode.kind = "TrackedFiles"
    /\ sess.relevant
    /\ pending = {"/repo/a.txt"}

\* ------------------------------------------------------------------------
\* Unwatch requests (SpecLife)
\* ------------------------------------------------------------------------

\* The steps of an Unwatch request in slot s, told by its position.
UnwatchStep(s, from, to) ==
    /\ cli[s].op = "unwatch"
    /\ cli[s].pc = from
    /\ cli'[s].pc = to

\* An Unwatch request whose read finds the recorded process running sends
\* it the termination signal and then removes the record, so that a read
\* reports none and a Watch request goes on to spawn a daemon.
UnwatchStopsLiveSession ==
    \A s \in Slots :
       /\ (cli[s].op = "unwatch" /\ cli[s].pc = "read" /\ cli'[s] # cli[s]
              /\ DaemonStatusRead(record) = "some")
            => (cli'[s].pc = "kill" /\ cli'[s].tgt = record /\ record' = record)
       /\ UnwatchStep(s, "kill", "remove")
            => (/\ Alive(cli[s].tgt) => cli[s].tgt \in signalled'
                /\ signalled' \subseteq signalled \cup {cli[s].tgt}
                /\ proc' = proc /\ record' = record)
       /\ UnwatchStep(s, "remove", "done")
            => (/\ record' = 0
                /\ DaemonStatusRead(record') = "none"
                /\ cli'[s].outcome = "stopped"
                /\ proc' = proc /\ signalled' = signalled)
       /\ (cli[s].op = "watch" /\ cli[s].pc = "read" /\ cli'[s] # cli[s]
              /\ record = 0)
            => cli'[s].pc = "spawn"

\* An Unwatch request whose read finds no running recorded process signals
\* nobody, starts and ends no process and returns success.
UnwatchWithoutSessionIsQuiet ==
    \A s \in Slots :
       (cli[s].op = "unwatch" /\ cli[s].pc \in {"read", "purge"} /\ cli'[s] # cli[s]
          /\ DaemonStatusRead(record) # "some")
        => (/\ proc' = proc /\ signalled' = signalled
            /\ cli'[s].pc = "done" => cli'[s].outcome = "noDaemon"
            /\ cli'[s].pc \in {"done", "purge"})

\* C21 (as stated): an Unwatch request that finds a live session signals the
\* recorded process and removes the record, after which a read reports none
\* and a Watch request can start a daemon; an Unwatch request that finds no
\* live session changes nothing, the record file included, and succeeds.
C21_UnwatchStopsOrChangesNothing ==
    [][/\ UnwatchStopsLiveSession
       /\ UnwatchWithoutSessionIsQuiet
       /\ \A s \in Slots :
            (cli[s].op = "unwatch" /\ cli[s].pc \in {"read", "purge"}
               /\ cli'[s] # cli[s] /\ DaemonStatusRead(record) # "some")
             => record' = record]_vars

\* C21 (amended): the same, except that an Unwatch request that finds the
\* record of a process that no longer runs deletes that record file; with
\* no record file it changes nothing.
C21_UnwatchStopsOrPurgesStale ==
    [][/\ UnwatchStopsLiveSession
       /\ UnwatchWithoutSessionIsQuiet
       /\ \A s \in Slots :
            /\ (cli[s].op = "unwatch" /\ cli[s].pc = "read" /\ cli'[s] # cli[s]
                   /\ DaemonStatusRead(record) # "some")
                 => record' = record
            /\ UnwatchStep(s, "purge", "done") => record' = 0]_vars

\* An Unwatch request has signalled a running daemon and removed its record.
C21_Witness ==
    \E s \in Slots, d \in Pids :
       /\ cli[s].op = "unwatch"
       /\ cli[s].pc = "done"
       /\ cli[s].outcome = "stopped"
       /\ d \in signalled
       /\ record = 0

\* ------------------------------------------------------------------------
\* daemon.rs DaemonStatus::read and DaemonStatus::write on the text of
\* daemon.json (SpecStatus)
\* ------------------------------------------------------------------------

\* What daemon.json can hold: nothing (no file), a text that is not JSON, a
\* JSON object without repo_path and started_at, or a complete record.
NoStatusFile == [kind |-> "absent", pid |-> 0]

InvalidJsonText == [kind |-> "invalid", pid |-> 0]

MissingFieldsText(pid) == [kind |-> "partial", pid |-> pid]

StatusText(pid) == [kind |-> "status", pid |-> pid]

StatusTexts ==
    {NoStatusFile, InvalidJsonText}
        \cup {MissingFieldsText(n) : n \in 0..MaxPid}
        \cup {StatusText(n) : n \in 0..MaxPid}

\* json_utils::read_json::<DaemonStatus>: serde_json::from_str, then
\* serde_json::from_value.
ReadJsonStatus(text) ==
    CASE text.kind = "invalid" -> [ok |-> FALSE, why |-> "Invalid JSON", pid |-> 0]
      [] text.kind = "partial" -> [ok |-> FALSE, why |-> "JSON schema mismatch", pid |-> 0]
      [] text.kind = "status"  -> [ok |-> TRUE, why |-> "", pid |-> text.pid]

\* A mutant of StatusRead: the pid of the parsed record is not validated.
StatusRead_NoPidCheck(text, running) ==
    IF text.kind = "absent"
    THEN [err |-> FALSE, some |-> FALSE, pid |-> 0, file |-> text]
    ELSE LET parsed == ReadJsonStatus(text) IN
         IF ~parsed.ok
         THEN [err |-> FALSE, some |-> FALSE, pid |-> 0, file |-> NoStatusFile]
         ELSE IF parsed.pid \in running \/ parsed.pid = 0
              THEN [err |-> FALSE, some |-> TRUE, pid |-> parsed.pid, file |-> text]
              ELSE [err |-> FALSE, some |-> FALSE, pid |-> 0, file |-> NoStatusFile]

\* DaemonStatus::read: what it returns and what it leaves of the file.
StatusRead(text, running) ==
    IF text.kind = "absent"
    THEN [err |-> FALSE, some |-> FALSE, pid |-> 0, file |-> text]
    ELSE LET parsed == ReadJsonStatus(text) IN
         IF ~parsed.ok
         THEN [err |-> FALSE, some |-> FALSE, pid |-> 0, file |-> NoStatusFile]
         ELSE IF parsed.pid = 0
              THEN [err |-> FALSE, some |-> FALSE, pid |-> 0, file |-> NoStatusFile]
              ELSE IF parsed.pid \in running
                   THEN [err |-> FALSE, some |-> TRUE, pid |-> parsed.pid, file |-> text]
                   ELSE [err |-> FALSE, some |-> FALSE, pid |-> 0, file |-> NoStatusFile]

\* DaemonStatus::write: pid 0 is refused before anything is touched,
\* otherwise write_json_atomic replaces the file.
StatusWrite(pid, text) ==
    IF pid = 0
    THEN [err |-> TRUE, some |-> FALSE, pid |-> pid, file |-> text]
    ELSE [err |-> FALSE, some |-> FALSE, pid |-> pid, file |-> StatusText(pid)]

\* The rest of the model stands still.
OthersIdle ==
    /\ LifeIdle
    /\ ScanIdle
    /\ SessIdle
    /\ LoopIdle

StatusInit ==
    /\ OthersIdle
    /\ dstat = [pc |-> "run", file |-> NoStatusFile, running |-> {},
                op |-> "none", before |-> NoStatusFile, out |-> StatusRead(NoStatusFile, {})]
    /\ atomic = [pc |-> "off"]
    /\ trackedMem = [pc |-> "off"]
    /\ index = {}

StatusFrame ==
    /\ UNCHANGED <<lifeVars, fsVars, scanVars, sessVars, loopVars>>
    /\ UNCHANGED <<atomic, trackedMem, index>>

\* Some command calls DaemonStatus::read.
StatusReadStep ==
    /\ LET out == StatusRead(dstat.file, dstat.running) IN
         dstat' = [dstat EXCEPT !.op = "read", !.before = dstat.file, !.out = out,
                                !.file = out.file]
    /\ StatusFrame

\* Some process calls DaemonStatus::write on a record with the given pid.
StatusWriteStep(pid) ==
    /\ LET out == StatusWrite(pid, dstat.file) IN
         dstat' = [dstat EXCEPT !.op = "write", !.before = dstat.file, !.out = out,
                                !.file = out.file]
    /\ StatusFrame

\* The file is written by other means (an editor, a crash of another tool).
StatusEdited(text) ==
    /\ text # dstat.file
    /\ dstat' = [dstat EXCEPT !.op = "edit", !.before = dstat.file, !.file = text]
    /\ StatusFrame

\* A process starts or ends.
ProcessToggle(pid) ==
    /\ dstat' = [dstat EXCEPT !.running = IF pid \in @ THEN @ \ {pid} ELSE @ \cup {pid}]
    /\ StatusFrame

StatusNext ==
    \/ StatusReadStep
    \/ \E pid \in 0..MaxPid : StatusWriteStep(pid)
    \/ \E text \in StatusTexts : StatusEdited(text)
    \/ \E pid \in Pids : ProcessToggle(pid)

SpecStatus == StatusInit /\ [][StatusNext]_vars

\* C22: a read of a file that is not JSON, lacks fields or records pid 0
\* reports no session, without an error, and the file is gone afterwards; a
\* write of pid 0 fails and leaves the file, or its absence, as it was; no
\* read returns a record with pid 0.
C22_UnusableRecordsDiscarded ==
    /\ (dstat.op = "read" /\ (dstat.before.kind \in {"invalid", "partial"}
                                \/ dstat.before = StatusText(0)))
         => (~dstat.out.err /\ ~dstat.out.some /\ dstat.file = NoStatusFile)
    /\ (dstat.op = "write" /\ dstat.out.pid = 0)
         => (dstat.out.err /\ dstat.file = dstat.before)
    /\ (dstat.op = "read" /\ dstat.out.some)
         => (dstat.out.pid # 0 /\ dstat.file = dstat.before)
    /\ (dstat.op = "write" /\ ~dstat.out.err) => dstat.file.pid # 0

\* A hand-written record with pid 0 was read and discarded.
C22_Witness ==
    /\ dstat.op = "read"
    /\ dstat.before = StatusText(0)
    /\ dstat.file = NoStatusFile
    /\ ~dstat.out.some

\* ------------------------------------------------------------------------
\* json_utils.rs write_json_atomic against a concurrent reader (SpecAtomic)
\* ------------------------------------------------------------------------

\* The number of concurrent writers of one state file.
MaxWriters == 2

\* The number of write or read calls one file content takes.
MaxChunks == 2

Writers == 1..MaxWriters

\* Inode 0 holds the content the file had before; writer w creates inode w.
Inodes == 0..MaxWriters

\* The complete content a writer serialises (0: the previous content).
Full(w) == [k \in 1..MaxChunks |-> w]

\* A mutant of TempInode: the target file itself is opened and rewritten.
TempInode_InPlace(w) == atomic.target

\* NamedTempFile::new_in(dir): a fresh file of its own next to the target.
TempInode(w) == w

\* The bytes of inode i after chunk c was written at position k.
WriteAt(content, k, c) ==
    IF k <= Len(content) THEN [content EXCEPT ![k] = c] ELSE Append(content, c)

AtomicInit ==
    /\ OthersIdle
    /\ dstat = [pc |-> "off"]
    /\ trackedMem = [pc |-> "off"]
    /\ index = {}
    /\ atomic = [pc |-> "run",
                 target |-> 0,
                 inodes |-> [i \in Inodes |-> IF i = 0 THEN Full(0) ELSE <<>>],
                 wpc |-> [w \in Writers |-> "idle"],
                 wn |-> [w \in Writers |-> 0],
                 rd |-> [pc |-> "idle", ino |-> 0, buf |-> <<>>, raced |-> FALSE],
                 failedOver |-> Full(0)]

AtomicFrame ==
    /\ UNCHANGED <<lifeVars, fsVars, scanVars, sessVars, loopVars>>
    /\ UNCHANGED <<dstat, trackedMem, index>>

\* create_dir_all and NamedTempFile::new_in: an empty file to write to.
WriterCreate(w) ==
    /\ atomic.wpc[w] = "idle"
    /\ atomic' = [atomic EXCEPT !.wpc[w] = "writing",
                                !.inodes[TempInode(w)] = <<>>]
    /\ AtomicFrame

\* write_all: one more chunk reaches the file being written.
WriterChunk(w) ==
    /\ atomic.wpc[w] = "writing"
    /\ atomic.wn[w] < MaxChunks
    /\ atomic' = [atomic EXCEPT
                     !.wn[w] = @ + 1,
                     !.inodes[TempInode(w)] = WriteAt(@, atomic.wn[w] + 1, w)]
    /\ AtomicFrame

\* flush, sync_all and persist: the rename puts the written file under the
\* target path.  raced is history: a reader had the file open at the rename.
WriterPersist(w) ==
    /\ atomic.wpc[w] = "writing"
    /\ atomic.wn[w] = MaxChunks
    /\ atomic' = [atomic EXCEPT !.wpc[w] = "done", !.target = TempInode(w),
                                !.rd.raced = @ \/ atomic.rd.pc = "open"]
    /\ AtomicFrame

\* Any step up to and including persist fails (serialisation, a full disk,
\* a failing rename): the function returns Err and the temporary file is
\* dropped.
WriterFail(w) ==
    /\ atomic.wpc[w] \in {"idle", "writing"}
    /\ atomic' = [atomic EXCEPT !.wpc[w] = "failed",
                                !.failedOver = atomic.inodes[atomic.target]]
    /\ AtomicFrame

\* fs::read_to_string: the file under the target path is opened ...
ReaderOpen ==
    /\ atomic.rd.pc = "idle"
    /\ atomic' = [atomic EXCEPT !.rd = [pc |-> "open", ino |-> atomic.target,
                                        buf |-> <<>>, raced |-> FALSE]]
    /\ AtomicFrame

\* ... and read call by call until the end of the file.
ReaderRead ==
    /\ atomic.rd.pc = "open"
    /\ LET content == atomic.inodes[atomic.rd.ino]
           k == Len(atomic.rd.buf) + 1
       IN  atomic' = IF k <= Len(content)
                     THEN [atomic EXCEPT !.rd.buf = Append(@, content[k])]
                     ELSE [atomic EXCEPT !.rd.pc = "done"]
    /\ AtomicFrame

\* The reader goes on to read again.
ReaderAgain ==
    /\ atomic.rd.pc = "done"
    /\ atomic' = [atomic EXCEPT !.rd = [pc |-> "idle", ino |-> 0, buf |-> <<>>,
                                        raced |-> FALSE]]
    /\ AtomicFrame

AtomicNext ==
    \/ \E w \in Writers : WriterCreate(w)
    \/ \E w \in Writers : WriterChunk(w)
    \/ \E w \in Writers : WriterPersist(w)
    \/ \E w \in Writers : WriterFail(w)
    \/ ReaderOpen
    \/ ReaderRead
    \/ ReaderAgain

SpecAtomic == AtomicInit /\ [][AtomicNext]_vars

\* The contents a reader may see: the previous one, or the complete one of
\* a writer that has persisted.
WholeContents == {Full(0)} \cup {Full(w) : w \in {x \in Writers : atomic.wpc[x] = "done"}}

\* C23: a reader that runs alongside the writers ends with the complete
\* previous content or the complete content of one writer that persisted;
\* the file under the path is complete at every moment; and a write that
\* failed left under the path what was there.
C23_NoPartialFileObserved ==
    /\ atomic.rd.pc = "done" => atomic.rd.buf \in WholeContents
    /\ atomic.inodes[atomic.target] \in WholeContents
    /\ \A w \in Writers :
         atomic.wpc[w] = "failed" =>
            (atomic.target # w /\ atomic.failedOver \in WholeContents)

\* A reader that had the file open during a writer's rename has the whole
\* previous content, while the path holds the new one and another write has
\* failed.
C23_Witness ==
    /\ atomic.rd.pc = "done"
    /\ atomic.rd.raced
    /\ atomic.rd.buf = Full(0)
    /\ atomic.target = 1
    /\ atomic.wpc[2] = "failed"

\* ------------------------------------------------------------------------
\* tracked_files.rs: load, the four updates and save, as the command line
\* uses them (SpecTracked)
\* ------------------------------------------------------------------------

\* The number of files or patterns one call is given.
MaxArgs == 2

\* A file whose name is not valid UTF-8, as a Unix file system allows.
NonUtf8Path == Abs("/repo/\\377.log")

\* Path::to_str succeeds.
IsUtf8(e) == e # NonUtf8Path

\* The paths add_files and remove_files are given: the paths a command has
\* just marked or unmarked, which exist and so are not empty.
FileArgs == {Rel("/repo/b.log"), Abs("/repo/a.txt"), NonUtf8Path}

\* The patterns add_patterns and remove_patterns are given: the arguments
\* with a wildcard character.
PatternArgs == {"*.log", "sub/*.txt"}

\* A file that parses as JSON and is not a TrackedFiles value.
MismatchFile == [state |-> "mismatch", marked_files |-> {}, patterns |-> <<>>]

\* What tracked_files.json may hold when a command starts.
RawSpecFiles ==
    {MissingFile, CorruptFile, MismatchFile,
     [state |-> "ok", marked_files |-> {}, patterns |-> <<>>],
     [state |-> "ok", marked_files |-> {Rel("/repo/b.log"), EmptyPath},
      patterns |-> <<"*.log", "", "sub/*.txt">>],
     [state |-> "ok", marked_files |-> {EmptyPath}, patterns |-> <<"">>]}

\* A mutant of TrackedFilesLoad: an unparsable file is an error.
TrackedFilesLoad_ErrOnCorrupt(f) ==
    IF f.state \in {"corrupt", "mismatch"}
    THEN [err |-> TRUE, value |-> DefaultTracked]
    ELSE [err |-> FALSE, value |-> Load(f)]

\* TrackedFiles::load as a Result: every branch is Ok.
TrackedFilesLoad(f) == [err |-> FALSE, value |-> Load(f)]

\* serde_json::to_string_pretty on a TrackedFiles value: a path that is not
\* UTF-8 cannot be serialised.
Serialisable(t) == \A e \in t.marked_files : IsUtf8(e)

\* TrackedFiles::save as a Result: write_json_atomic replaces the file, or
\* fails at serialisation and leaves it.
TrackedFilesSave(t, f) ==
    IF Serialisable(t) THEN [err |-> FALSE, file |-> Save(t)]
    ELSE [err |-> TRUE, file |-> f]

\* The elements of a sequence.
Range(s) == {s[i] : i \in 1..Len(s)}

\* add_files, remove_files
AddFiles(t, files) == [t EXCEPT !.marked_files = @ \cup files]

RemoveFiles(t, files) == [t EXCEPT !.marked_files = @ \ files]

\* add_patterns: each pattern not yet in the list is pushed, in order.
RECURSIVE AddPatterns(_, _)
AddPatterns(t, ps) ==
    IF ps = <<>> THEN t
    ELSE AddPatterns(IF Head(ps) \in Range(t.patterns) THEN t
                     ELSE [t EXCEPT !.patterns = Append(@, Head(ps))],
                     Tail(ps))

\* remove_patterns: retain what is not in the given list.
RemovePatterns(t, ps) ==
    [t EXCEPT !.patterns = SelectSeq(@, LAMBDA p : p \notin Range(ps))]

TrackedInit ==
    /\ LifeIdle
    /\ SessIdle
    /\ LoopIdle
    /\ exists = {"/repo/a.txt", "/repo/.git/x.log", "/out/o.log"}
    /\ marker = {}
    /\ failing = {}
    /\ rules = <<>>
    /\ specFile \in RawSpecFiles
    /\ watch_mode = GitIgnore
    /\ report = NoReport
    /\ prevMarker = {}
    /\ prevSpec = MissingFile
    /\ passNo = 0
    /\ dstat = [pc |-> "off"]
    /\ atomic = [pc |-> "off"]
    /\ index = {}
    /\ trackedMem = [pc |-> "run", mem |-> DefaultTracked, op |-> "default",
                     err |-> FALSE, saved |-> DefaultTracked]

TrackedFrame ==
    /\ UNCHANGED <<lifeVars, scanVars, sessVars, loopVars>>
    /\ UNCHANGED <<exists, marker, failing, rules>>
    /\ UNCHANGED <<dstat, atomic, index>>

\* An update of the value in memory; saved is history, the value the last
\* save was given.
MemUpdate(op, value) ==
    /\ trackedMem' = [trackedMem EXCEPT !.mem = value, !.op = op, !.err = FALSE,
                                        !.saved = DefaultTracked]
    /\ UNCHANGED specFile
    /\ TrackedFrame

TfLoad ==
    /\ LET r == TrackedFilesLoad(specFile) IN
         trackedMem' = [trackedMem EXCEPT
                          !.mem = IF r.err THEN @ ELSE r.value,
                          !.op = IF trackedMem.op = "save" THEN "reload" ELSE "load",
                          !.err = r.err,
                          !.saved = IF trackedMem.op = "save" THEN @ ELSE DefaultTracked]
    /\ UNCHANGED specFile
    /\ TrackedFrame

TfAddFiles(files) == MemUpdate("add_files", AddFiles(trackedMem.mem, files))

TfRemoveFiles(files) == MemUpdate("remove_files", RemoveFiles(trackedMem.mem, files))

TfAddPatterns(ps) == MemUpdate("add_patterns", AddPatterns(trackedMem.mem, ps))

TfRemovePatterns(ps) == MemUpdate("remove_patterns", RemovePatterns(trackedMem.mem, ps))

TfSave ==
    /\ LET r == TrackedFilesSave(trackedMem.mem, specFile) IN
         /\ specFile' = r.file
         /\ trackedMem' = [trackedMem EXCEPT !.op = "save", !.err = r.err,
                                             !.saved = trackedMem.mem]
    /\ TrackedFrame

TrackedNext ==
    \/ TfLoad
    \/ \E files \in SetsUpTo(FileArgs, MaxArgs) \ {{}} : TfAddFiles(files)
    \/ \E files \in SetsUpTo(FileArgs, MaxArgs) \ {{}} : TfRemoveFiles(files)
    \/ \E ps \in SeqsUpTo(PatternArgs, MaxArgs) \ {<<>>} : TfAddPatterns(ps)
    \/ \E ps \in SeqsUpTo(PatternArgs, MaxArgs) \ {<<>>} : TfRemovePatterns(ps)
    \/ TfSave

SpecTracked == TrackedInit /\ [][TrackedNext]_vars

\* An entry that load must never let through.
HasEmptyEntry(t) == EmptyPath \in t.marked_files \/ "" \in Range(t.patterns)

\* C24: loading a specification file that is missing, is not JSON or does
\* not match the schema gives the empty specification, and no load gives an
\* error.
C24_LoadNeverFails ==
    trackedMem.op \in {"load", "reload"} =>
        /\ ~trackedMem.err
        /\ specFile.state \in {"missing", "corrupt", "mismatch"}
             => trackedMem.mem = DefaultTracked

\* A file that is not JSON was loaded and gave the empty specification.
C24_Witness ==
    /\ trackedMem.op = "load"
    /\ ~trackedMem.err
    /\ specFile = CorruptFile
    /\ trackedMem.mem = DefaultTracked

C26_SaveLoadRoundTrip ==
    (trackedMem.op = "reload" /\ ~HasEmptyEntry(trackedMem.saved))
        => trackedMem.mem = trackedMem.saved

\* ------------------------------------------------------------------------
\* The TrackedFiles pass and the specification (SpecScan)
\* ------------------------------------------------------------------------

\* A TrackedFiles pass has just run.
TrackedPassDone == passNo > 0 /\ report.mode = "TrackedFiles"

\* The entries the pass loaded, and those among them whose file is gone.
TrackedBefore == Load(prevSpec).marked_files

TrackedGone == {e \in TrackedBefore : e.p \notin exists}

\* C27: a TrackedFiles pass takes out of the marked paths every tracked path
\* that no longer exists and keeps every one that exists, writes the result
\* to the specification file, counts the paths it took out, and neither
\* adds, removes nor attempts a marker on a path it took out.
C27_TrackedPassPrunesMissing ==
    TrackedPassDone =>
        /\ Load(specFile).marked_files = TrackedBefore \ TrackedGone
        /\ TrackedBefore # {} =>
              specFile = Save([Load(prevSpec) EXCEPT
                                 !.marked_files = TrackedBefore \ TrackedGone])
        /\ report.untracked = Cardinality(TrackedGone)
        /\ \A e \in TrackedGone :
              /\ e.p \notin report.adds \cup report.rems
              /\ e \notin report.fails
              /\ e.p \in marker <=> e.p \in prevMarker

\* A pass dropped sub/c.log, which is gone, and kept o.log, which exists.
C27_Witness ==
    /\ TrackedPassDone
    /\ Abs("/repo/sub/c.log") \in TrackedGone
    /\ Load(specFile).marked_files = {Abs("/out/o.log")}
    /\ specFile.state = "ok"
    /\ report.untracked = 1

\* C28: after a TrackedFiles pass on which the store did not fail, every
\* tracked path that exists carries the marker if and only if the ignore
\* rules exclude it.
C28_TrackedMarkerIffIgnored ==
    (TrackedPassDone /\ report.errors = 0) =>
        \A e \in Load(specFile).marked_files :
            e.p \in marker <=> e.p \in Desired

\* ------------------------------------------------------------------------
\* git_utils.rs: the ignored files and the version-control index (SpecIndex)
\* ------------------------------------------------------------------------

\* The files of the work tree the index may list.
Indexable(ex) == {p \in ex : IsFile(p) /\ UnderRoot(p) /\ ~HasGitComponent(RelComps(p))}

\* What the version-control system reports as ignored and untracked: an
\* ignore rule has no effect on a file the index lists.
IgnoredUntracked(ex, rs, ix) == {p \in GetGitIgnoredFilesInPath(ex, rs) : p \notin ix}

IndexInit ==
    /\ LifeIdle
    /\ SessIdle
    /\ LoopIdle
    /\ dstat = [pc |-> "off"]
    /\ atomic = [pc |-> "off"]
    /\ trackedMem = [pc |-> "off"]
    /\ exists \in Trees
    /\ index \in SUBSET Indexable(exists)
    /\ marker = {}
    /\ failing = {}
    /\ rules \in RuleSets
    /\ specFile = MissingFile
    /\ watch_mode = GitIgnore
    /\ report = NoReport
    /\ prevMarker = {}
    /\ prevSpec = MissingFile
    /\ passNo = 0

\* git add -f and git rm --cached: the index changes, the work tree does not.
IndexChange(ix) ==
    /\ index' = ix
    /\ UNCHANGED <<lifeVars, fsVars, scanVars, sessVars, loopVars>>
    /\ UNCHANGED <<dstat, atomic, trackedMem>>

GitAdd(p) ==
    /\ p \in Indexable(exists) \ index
    /\ IndexChange(index \cup {p})

GitRmCached(p) ==
    /\ p \in index
    /\ IndexChange(index \ {p})

\* perform_gitignore_scan in a repository with an index.
IndexScan == ScanGitIgnore

IndexNext ==
    \/ IndexScan
    \/ \E p \in Paths : GitAdd(p)
    \/ \E p \in Paths : GitRmCached(p)

SpecIndex == IndexInit /\ [][IndexNext]_vars

\* C29: in GitIgnore mode the paths a pass wants marked are the files the
\* version-control system reports as ignored and untracked; a file the
\* index lists is not among them and gets no marker, whatever rule it
\* matches.
C29_IndexedNeverDesired ==
    (passNo > 0 /\ report.mode = "GitIgnore") =>
        /\ report.adds \cap index = {}
        /\ report.adds = IgnoredUntracked(exists, rules, index) \ prevMarker

\* ------------------------------------------------------------------------
\* pattern_matcher.rs and the Patterns pass (SpecScan)
\* ------------------------------------------------------------------------

\* PatternMatcher::is_ignored: the path relative to the base against the
\* pattern list read as ignore lines; a path outside the base is not
\* ignored, and the parent directories are not consulted.
PatternMatcherIsIgnored(pats, p) ==
    /\ UnderRoot(p)
    /\ Decision(pats, RelComps(p), IsDir(p))

\* PatternMatcher::find_matching_files: the walk takes hidden entries too
\* and keeps the files that is_ignored accepts.
FindMatchingFiles(ex, pats) ==
    {p \in ex : IsFile(p) /\ UnderRoot(p) /\ PatternMatcherIsIgnored(pats, p)}

\* C30: in Patterns mode the paths a pass wants marked are those that
\* PatternMatcher::find_matching_files returns for the stored patterns at
\* the repository root, so that a pass on which the store does not fail
\* marks exactly those of them that were not marked.
C30_PatternsDesiredIsFindMatches ==
    (passNo > 0 /\ report.mode = "Patterns" /\ report.errors = 0) =>
        report.adds = FindMatchingFiles(exists, watch_mode.patterns) \ prevMarker

\* C31: the ignored files this program computes are those the version-
\* control system lists as ignored and untracked, for every tree, every rule
\* file of the model (negation, directory-only line, nested path) and every
\* index.
C31_ParityWithVcs ==
    GetGitIgnoredFilesInPath(exists, rules) = IgnoredUntracked(exists, rules, index)

\* ------------------------------------------------------------------------
\* main.rs and lib.rs: one ignore or reset command, from its arguments to
\* the saved specification (SpecCmd)
\* ------------------------------------------------------------------------

\* The number of rayon workers of the per-path phase.
MaxThreads == 2

Threads == 1..MaxThreads

\* The argument lists of the commands of the model: files that exist, a
\* file that does not, patterns with and without matches, the same file
\* twice, and the arguments that stand for the whole directory.
ArgLists ==
    {<<"a.txt">>, <<"a.txt", "b.log">>, <<"b.log", "b.log">>,
     <<"*.log">>, <<"*.log", "a.txt">>,
     <<"nope.txt">>, <<"a.txt", "nope.txt">>, <<"*.tmp">>, <<"*.tmp", "a.txt">>,
     <<".">>, <<"*">>, <<"./">>, <<"./*">>, <<"a.txt", ".">>}

\* Path::components of an argument: a trailing slash is dropped, a leading
\* "." is kept.
ArgComps(a) ==
    CASE a \in {".", "./"} -> <<".">>
      [] a = "./*"          -> <<".", "*">>
      [] OTHER              -> <<a>>

\* The arguments main refuses without a .gitignore in a repository.
DangerousPatterns == {ArgComps("."), ArgComps("*"), ArgComps("./"), ArgComps("./*")}

IsDangerous(a) == ArgComps(a) \in DangerousPatterns \/ a = "*"

\* A mutant of Guard: only "." is looked for.
Guard_DotOnly(action, args, has_gitignore, in_git_repo) ==
    IF /\ action = "Ignore"
       /\ args # <<>>
       /\ \E i \in 1..Len(args) : args[i] = "."
       /\ ~has_gitignore \/ ~in_git_repo
    THEN "rejected"
    ELSE "passed"

\* The validation of main before run is called.
Guard(action, args, has_gitignore, in_git_repo) ==
    IF /\ action = "Ignore"
       /\ args # <<>>
       /\ \E i \in 1..Len(args) : IsDangerous(args[i])
       /\ ~has_gitignore \/ ~in_git_repo
    THEN "rejected"
    ELSE "passed"

IsGlobPattern(a) == a \in {"*.log", "*.tmp", "*", "./*"}

\* The file a plain argument names, resolved in the current directory,
\* which is the repository root.
ArgFile(a) ==
    CASE a = "a.txt"        -> "/repo/a.txt"
      [] a = "b.log"        -> "/repo/b.log"
      [] a \in {".", "./"}  -> "/repo"
      [] OTHER              -> "/repo/nope.txt"

\* Path::exists for a plain argument.
ArgExists(ex, a) == ArgFile(a) = "/repo" \/ ArgFile(a) \in ex

\* classify_path: only the text "." is the current directory; "./" has no
\* file name and is a regular path.
IsCurrentDirectory(a) == a = "."

\* Some order of the elements of a set.
SetToSeq(S) == CHOOSE o \in Orders(S) : TRUE

\* process_glob_pattern: the existing paths glob yields for the pattern.
ProcessGlobPattern(ex, a) == SetToSeq({Rel(p) : p \in Glob(ex, a)})

\* read_dir of the current directory without the hidden entries.
CurrentDirectoryEntries(ex) ==
    SetToSeq({Rel(p) : p \in {q \in ex : UnderRoot(q) /\ Len(RelComps(q)) = 1}})

\* The items one plain argument contributes.
RegularItems(ex, a) ==
    IF IsCurrentDirectory(a) THEN CurrentDirectoryEntries(ex)
    ELSE <<Rel(ArgFile(a))>>

RECURSIVE Concat(_, _, _)
Concat(f(_), args, i) ==
    IF i > Len(args) THEN <<>> ELSE f(args[i]) \o Concat(f, args, i + 1)

\* A mutant of GetFilesFromPaths: arguments that name nothing are skipped.
GetFilesFromPaths_SkipMissing(ex, args) ==
    LET globs(a) == IF IsGlobPattern(a) THEN ProcessGlobPattern(ex, a) ELSE <<>>
        plain(a) == IF IsGlobPattern(a) \/ ~ArgExists(ex, a)
                    THEN <<>> ELSE RegularItems(ex, a)
    IN  [err |-> FALSE, items |-> Concat(globs, args, 1) \o Concat(plain, args, 1)]

\* get_files_from_paths: the patterns first, then the plain paths; an error
\* if a pattern matches nothing or a plain path does not exist.
GetFilesFromPaths(ex, args) ==
    LET globs(a) == IF IsGlobPattern(a) THEN ProcessGlobPattern(ex, a) ELSE <<>>
        plain(a) == IF IsGlobPattern(a) THEN <<>> ELSE RegularItems(ex, a)
        empty_patterns == {i \in 1..Len(args) :
                             IsGlobPattern(args[i]) /\ Glob(ex, args[i]) = {}}
        missing == {i \in 1..Len(args) :
                      ~IsGlobPattern(args[i]) /\ ~ArgExists(ex, args[i])}
    IN  IF empty_patterns # {} \/ missing # {}
        THEN [err |-> TRUE, items |-> <<>>]
        ELSE [err |-> FALSE, items |-> Concat(globs, args, 1) \o Concat(plain, args, 1)]

\* process_path: the number of markers added or removed, or that would be;
\* -1 stands for Err.
ProcessPath(action, dry, p, mk, fl) ==
    LET change == IF action = "Ignore" THEN p \notin mk ELSE p \in mk
    IN  IF ~change THEN [res |-> 0, marker |-> mk]
        ELSE IF dry THEN [res |-> 1, marker |-> mk]
        ELSE IF p \in fl THEN [res |-> -1, marker |-> mk]
        ELSE [res |-> 1,
              marker |-> IF action = "Ignore" THEN mk \cup {p} ELSE mk \ {p}]

\* A mutant of FetchAdd: the counter is read, then written.
FetchAdd_ReadThenWrite(counter, seen, n) == seen + n

\* AtomicUsize::fetch_add.
FetchAdd(counter, seen, n) == counter + n

\* config.patterns: the arguments with a wildcard, in their order.
ConfigPatterns(args) == SelectSeq(args, IsGlobPattern)

\* The result of a path no worker has processed yet.
NotRun == -2

IdleThread == [pc |-> "idle", item |-> 0, res |-> 0, seenP |-> 0, seenO |-> 0]

\* The trees, markers and specification files a command starts from.
CmdTrees == {t \in Trees : "/repo/sub" \notin t}

CmdSpecFiles ==
    {MissingFile,
     [state |-> "ok", marked_files |-> {Rel("/repo/b.log")}, patterns |-> <<"*.log">>]}

CmdInit ==
    /\ LifeIdle
    /\ SessIdle
    /\ LoopIdle
    /\ dstat = [pc |-> "off"]
    /\ atomic = [pc |-> "off"]
    /\ index = {}
    /\ exists \in CmdTrees
    /\ marker \in SUBSET ({"/repo/a.txt", "/repo/b.log"} \cap exists)
    /\ failing \in {{}, {"/repo/a.txt"}}
    /\ rules = <<>>
    /\ specFile \in CmdSpecFiles
    /\ watch_mode = GitIgnore
    /\ report = NoReport
    /\ prevMarker = marker
    /\ prevSpec = specFile
    /\ passNo = 0
    /\ \E action \in {"Ignore", "Reset", "Watch"}, dry \in BOOLEAN, args \in ArgLists,
          has_gitignore \in BOOLEAN, in_git_repo \in BOOLEAN, running \in BOOLEAN :
         /\ running => action = "Watch"
         /\ trackedMem =
                      [pc |-> "main", request |-> action, running |-> running,
                       action |-> action, dry_run |-> dry,
                       args |-> args, has_gitignore |-> has_gitignore,
                       in_git_repo |-> in_git_repo,
                       items |-> <<>>, results |-> <<>>, taken |-> {},
                       thread |-> [w \in Threads |-> IdleThread],
                       processed |-> 0, operations |-> 0, files |-> {},
                       loaded |-> DefaultTracked, mem |-> DefaultTracked,
                       err |-> FALSE]

CmdFrameW ==
    /\ UNCHANGED <<lifeVars, sessVars, loopVars>>
    /\ UNCHANGED <<report, prevMarker, prevSpec, passNo>>
    /\ UNCHANGED <<exists, failing, rules>>
    /\ UNCHANGED <<dstat, atomic, index>>

CmdFrame ==
    /\ CmdFrameW
    /\ UNCHANGED watch_mode

\* main: the validation; a refused command exits with status 1.
CmdValidate ==
    /\ trackedMem.pc = "main"
    /\ LET m == trackedMem
           g == Guard(m.action, m.args, m.has_gitignore, m.in_git_repo)
       IN  trackedMem' = [m EXCEPT !.pc = IF g = "rejected" THEN "rejected"
                                         ELSE IF m.action = "Watch" THEN "watch"
                                         ELSE "resolve",
                                   !.err = g = "rejected"]
    /\ UNCHANGED <<marker, specFile>>
    /\ CmdFrame

\* A mutant of WatchBranch: the daemon is spawned without marking first.
WatchBranch_SpawnFirst(running, args) ==
    IF running THEN "already" ELSE "spawn"

\* Action::Watch in run: a live daemon ends the request; arguments are
\* marked first, as an ignore command; then the daemon is spawned.
WatchBranch(running, args) ==
    IF running THEN "already"
    ELSE IF args # <<>> THEN "resolve"
    ELSE "spawn"

\* running is what DaemonStatus::read returned.
CmdWatch ==
    /\ trackedMem.pc = "watch"
    /\ LET b == WatchBranch(trackedMem.running, trackedMem.args)
       IN  trackedMem' = [trackedMem EXCEPT
                            !.pc = b,
                            !.action = IF b = "resolve" THEN "Ignore" ELSE @]
    /\ UNCHANGED <<marker, specFile, watch_mode>>
    /\ CmdFrameW

\* spawn_daemon, and the start of watch_repository in the daemon: the mode
\* is derived from the specification file as it is then.
CmdSpawn ==
    /\ trackedMem.pc = "spawn"
    /\ trackedMem' = [trackedMem EXCEPT !.pc = "started"]
    /\ watch_mode' = DeriveWatchMode(TrackedFilesLoad(specFile).value)
    /\ UNCHANGED <<marker, specFile>>
    /\ CmdFrameW

\* The spawned daemon's watch_repository after the mode is derived: outside a
\* repository Repository::open fails and the daemon exits; inside one the
\* initial scan runs in the derived mode.
CmdFirstScan ==
    /\ trackedMem.pc = "started"
    /\ IF ~trackedMem.in_git_repo
       THEN /\ trackedMem' = [trackedMem EXCEPT !.pc = "exited"]
            /\ UNCHANGED <<marker, specFile, report, prevMarker, prevSpec, passNo>>
       ELSE /\ trackedMem' = [trackedMem EXCEPT !.pc = "scanned"]
            /\ \E order \in Orders(Load(specFile).marked_files) :
                 ApplyPass(
                   CASE watch_mode.kind = "GitIgnore" ->
                          PerformGitignoreScan(exists, marker, rules, failing, specFile)
                     [] watch_mode.kind = "TrackedFiles" ->
                          PerformTrackedFilesScan(exists, marker, rules, failing,
                                                  specFile, order)
                     [] watch_mode.kind = "Patterns" ->
                          PerformPatternScan(exists, marker, watch_mode.patterns,
                                             failing, specFile))
    /\ UNCHANGED <<lifeVars, sessVars, loopVars>>
    /\ UNCHANGED <<exists, failing, rules, watch_mode>>
    /\ UNCHANGED <<dstat, atomic, index>>

\* process_files_and_patterns up to the load of the specification.
CmdResolve ==
    /\ trackedMem.pc = "resolve"
    /\ LET r == GetFilesFromPaths(exists, trackedMem.args)
       IN  trackedMem' =
             IF r.err THEN [trackedMem EXCEPT !.pc = "failed", !.err = TRUE]
             ELSE [trackedMem EXCEPT
                     !.pc = "par", !.items = r.items,
                     !.results = [i \in 1..Len(r.items) |-> NotRun],
                     !.loaded = TrackedFilesLoad(specFile).value,
                     !.mem = TrackedFilesLoad(specFile).value]
    /\ UNCHANGED <<marker, specFile>>
    /\ CmdFrame

\* A worker takes an item and runs process_path on it.
ThreadProcess(w, i) ==
    /\ trackedMem.pc = "par"
    /\ trackedMem.thread[w].pc = "idle"
    /\ i \in (1..Len(trackedMem.items)) \ trackedMem.taken
    /\ LET m == trackedMem
           r == ProcessPath(m.action, m.dry_run, m.items[i].p, marker, failing)
       IN  /\ marker' = r.marker
           /\ trackedMem' = [m EXCEPT
                 !.taken = @ \cup {i},
                 !.results[i] = r.res,
                 !.thread[w] = [pc |-> IF r.res = -1 THEN "idle" ELSE "count",
                                item |-> i, res |-> r.res,
                                seenP |-> m.processed, seenO |-> m.operations]]
    /\ UNCHANGED specFile
    /\ CmdFrame

\* The worker adds to the two counters and, if markers changed and the run
\* is not a dry run, pushes the path under the lock.
ThreadCount(w) ==
    /\ trackedMem.pc = "par"
    /\ trackedMem.thread[w].pc = "count"
    /\ LET m == trackedMem
           t == m.thread[w]
       IN  trackedMem' = [m EXCEPT
             !.processed = FetchAdd(@, t.seenP, 1),
             !.operations = FetchAdd(@, t.seenO, t.res),
             !.files = IF t.res > 0 /\ ~m.dry_run THEN @ \cup {m.items[t.item]} ELSE @,
             !.thread[w] = IdleThread]
    /\ UNCHANGED <<marker, specFile>>
    /\ CmdFrame

\* A mutant of JoinValue: a dry run updates and saves too.
JoinValue_DryRunSaves(m, f) ==
    LET t1 == IF m.action = "Ignore" THEN AddFiles(m.mem, m.files)
              ELSE RemoveFiles(m.mem, m.files)
        ps == ConfigPatterns(m.args)
        t2 == IF ps = <<>> THEN t1
              ELSE IF m.action = "Ignore" THEN AddPatterns(t1, ps)
              ELSE RemovePatterns(t1, ps)
    IN  [mem |-> t2, save |-> TrackedFilesSave(t2, f)]

\* After the parallel phase: the collected paths and the patterns are
\* applied to the specification, which is saved; a dry run does neither.
JoinValue(m, f) ==
    IF m.dry_run THEN [mem |-> m.mem, save |-> [err |-> FALSE, file |-> f]]
    ELSE
    LET t1 == IF m.action = "Ignore" THEN AddFiles(m.mem, m.files)
              ELSE RemoveFiles(m.mem, m.files)
        ps == ConfigPatterns(m.args)
        t2 == IF ps = <<>> THEN t1
              ELSE IF m.action = "Ignore" THEN AddPatterns(t1, ps)
              ELSE RemovePatterns(t1, ps)
    IN  [mem |-> t2, save |-> TrackedFilesSave(t2, f)]

CmdJoin ==
    /\ trackedMem.pc = "par"
    /\ trackedMem.taken = 1..Len(trackedMem.items)
    /\ \A w \in Threads : trackedMem.thread[w].pc = "idle"
    /\ LET j == JoinValue(trackedMem, specFile)
       IN  /\ specFile' = j.save.file
           /\ trackedMem' = [trackedMem EXCEPT
                 !.pc = IF j.save.err THEN "failed"
                        ELSE IF trackedMem.request = "Watch" THEN "spawn"
                        ELSE "done",
                 !.mem = j.mem, !.err = j.save.err]
    /\ UNCHANGED marker
    /\ CmdFrame

CmdNext ==
    \/ CmdValidate
    \/ CmdWatch
    \/ CmdSpawn
    \/ CmdFirstScan
    \/ CmdResolve
    \/ \E w \in Threads, i \in 1..Len(trackedMem.items) : ThreadProcess(w, i)
    \/ \E w \in Threads : ThreadCount(w)
    \/ CmdJoin

SpecCmd == CmdInit /\ [][CmdNext]_vars

\* The paths on which process_path reported a change.
ChangedItems ==
    {trackedMem.items[i] : i \in {j \in 1..Len(trackedMem.items) :
                                     trackedMem.results[j] > 0}}

RECURSIVE SumResults(_, _)
SumResults(results, i) ==
    IF i > Len(results) THEN 0
    ELSE (IF results[i] < 0 THEN 0 ELSE results[i]) + SumResults(results, i + 1)

\* C32: while the workers run, the specification in memory is the one that
\* was loaded; when they have all finished, whatever their interleaving,
\* the processed count is the number of paths process_path accepted, the
\* operation count the sum of what it returned, and a run that is not a
\* dry run has added to the marked paths exactly the paths on which Ignore
\* added a marker, or taken away exactly those on which Reset removed one.
C32_ParallelPhaseSums ==
    /\ trackedMem.pc = "par" => trackedMem.mem = trackedMem.loaded
    /\ trackedMem.pc \in {"done", "spawn", "started"} =>
          /\ trackedMem.processed =
                Cardinality({i \in 1..Len(trackedMem.items) : trackedMem.results[i] >= 0})
          /\ trackedMem.operations = SumResults(trackedMem.results, 1)
          /\ ~trackedMem.dry_run =>
                trackedMem.mem.marked_files =
                  IF trackedMem.action = "Ignore"
                  THEN trackedMem.loaded.marked_files \cup ChangedItems
                  ELSE trackedMem.loaded.marked_files \ ChangedItems

\* An ignore run over three items, a.txt twice and b.log, ended with three
\* paths counted, two markers added and both files among the marked paths.
C32_Witness ==
    /\ trackedMem.pc = "done"
    /\ trackedMem.action = "Ignore"
    /\ ~trackedMem.dry_run
    /\ Len(trackedMem.items) = 3
    /\ trackedMem.processed = 3
    /\ trackedMem.operations = 2
    /\ {Rel("/repo/a.txt"), Rel("/repo/b.log")} \subseteq trackedMem.mem.marked_files
    /\ prevSpec = MissingFile

\* The number of items whose marker a run would change, an item counted
\* each time it occurs.
WouldChange ==
    Cardinality({i \in 1..Len(trackedMem.items) :
                   IF trackedMem.action = "Ignore"
                   THEN trackedMem.items[i].p \notin prevMarker
                   ELSE trackedMem.items[i].p \in prevMarker})

\* C34: a dry run of an ignore or reset command changes no marker and
\* neither creates nor changes the specification file; the count it reports
\* is that of the markers the items lack (ignore) or carry (reset).
C34_DryRunChangesNothing ==
    (trackedMem.dry_run /\ trackedMem.pc # "scanned") =>
        /\ marker = prevMarker
        /\ specFile = prevSpec
        /\ trackedMem.pc \in {"done", "spawn", "started"} =>
              /\ trackedMem.operations = WouldChange
              /\ trackedMem.processed = Len(trackedMem.items)

\* A dry run of ignore over a pattern ended: one marker would be added, none
\* was, and there is still no specification file.
C34_Witness ==
    /\ trackedMem.pc = "done"
    /\ trackedMem.dry_run
    /\ trackedMem.action = "Ignore"
    /\ trackedMem.args = <<"*.log">>
    /\ trackedMem.operations = 1
    /\ marker = {}
    /\ specFile = MissingFile

\* Some argument names no existing path, or is a pattern without a match.
BadArgument ==
    \E i \in 1..Len(trackedMem.args) :
        LET a == trackedMem.args[i]
        IN  IF a \in {"*.log", "*.tmp", "*", "./*"}
            THEN \A p \in exists : ~GlobMatch(AbsPattern(a), AbsComps(p))
            ELSE a \notin {".", "./"} /\ ArgFile(a) \notin exists

\* C35: when an argument names no existing path or is a pattern that
\* matches nothing, the command fails before any marker is added or
\* removed and before the specification is saved, whatever the other
\* arguments are.
C35_BadArgumentFailsFirst ==
    BadArgument =>
        /\ trackedMem.pc \in {"main", "rejected", "watch", "already", "resolve", "failed"}
        /\ trackedMem.pc = "failed" => trackedMem.err
        /\ marker = prevMarker
        /\ specFile = prevSpec

\* An ignore of a.txt and of a file that does not exist failed, and a.txt
\* did not get the marker.
C35_Witness ==
    /\ trackedMem.pc = "failed"
    /\ trackedMem.err
    /\ trackedMem.args = <<"a.txt", "nope.txt">>
    /\ trackedMem.action = "Ignore"
    /\ ~trackedMem.dry_run
    /\ "/repo/a.txt" \notin marker

\* An argument that stands for the whole directory.
WholeDirectoryArgument ==
    \E i \in 1..Len(trackedMem.args) : trackedMem.args[i] \in {".", "*", "./", "./*"}

\* C36: an ignore command with ".", "*", "./" or "./*" among its arguments
\* is refused, and marks nothing, unless the current directory has a
\* .gitignore file and lies in a git repository; no other command is
\* refused.
C36_WholeDirectoryGuard ==
    LET m == trackedMem
        guarded == /\ m.request = "Ignore"
                   /\ WholeDirectoryArgument
                   /\ ~(m.has_gitignore /\ m.in_git_repo)
    IN  /\ guarded => /\ m.pc \in {"main", "rejected"}
                      /\ marker = prevMarker
                      /\ specFile = prevSpec
        /\ m.pc = "rejected" => guarded /\ m.err
        /\ (~guarded /\ m.pc # "main") => m.pc # "rejected"

\* An ignore of a.txt and "." outside a repository was refused.
C36_Witness ==
    /\ trackedMem.pc = "rejected"
    /\ trackedMem.args = <<"a.txt", ".">>
    /\ trackedMem.has_gitignore
    /\ ~trackedMem.in_git_repo
    /\ "/repo/a.txt" \notin marker

\* A Watch request that found a daemon running changed nothing.
WatchAlreadyQuiet ==
    trackedMem.pc = "already" => marker = prevMarker /\ specFile = prevSpec

\* The daemon was spawned after every item was processed and the marked
\* paths and the patterns were saved.
WatchMarkedAndSaved ==
    /\ trackedMem.taken = 1..Len(trackedMem.items)
    /\ \A i \in 1..Len(trackedMem.items) :
          trackedMem.items[i].p \in marker \cup failing
    /\ specFile.state = "ok"
    /\ Load(specFile).marked_files = trackedMem.loaded.marked_files \cup ChangedItems
    /\ Load(specFile).patterns =
          AddPatterns(trackedMem.loaded, ConfigPatterns(trackedMem.args)).patterns

\* C33 as stated: a Watch request with arguments, no daemon running, marks
\* the matching paths and saves the marked paths and the patterns before
\* the daemon is spawned, and the daemon starts in Patterns mode; with a
\* daemon running it marks nothing.
C33_WatchThenPatternsMode ==
    trackedMem.request = "Watch" =>
        /\ WatchAlreadyQuiet
        /\ trackedMem.pc = "started" =>
              /\ WatchMarkedAndSaved
              /\ watch_mode.kind = "Patterns"

\* C33, amended: unless it is a dry run, the request marks and saves before
\* the daemon is spawned; the daemon derives its mode from what is then
\* saved, Patterns mode whenever a pattern was among the arguments; a dry
\* run marks and saves nothing and the daemon is spawned all the same; with
\* a daemon running the request marks nothing.
C33_WatchThenDerivedMode ==
    trackedMem.request = "Watch" =>
        /\ WatchAlreadyQuiet
        /\ trackedMem.pc = "started" =>
              /\ watch_mode = DeriveWatchMode(Load(specFile))
              /\ IF trackedMem.dry_run
                 THEN marker = prevMarker /\ specFile = prevSpec
                 ELSE /\ WatchMarkedAndSaved
                      /\ ConfigPatterns(trackedMem.args) # <<>> =>
                            /\ watch_mode.kind = "Patterns"
                            /\ Range(ConfigPatterns(trackedMem.args))
                                 \subseteq Range(watch_mode.patterns)

\* `--watch "*.log"` with no specification file: b.log was marked, the
\* pattern saved, and the daemon started in Patterns mode on it.
C33_Witness ==
    /\ trackedMem.request = "Watch"
    /\ trackedMem.pc = "started"
    /\ ~trackedMem.dry_run
    /\ trackedMem.args = <<"*.log">>
    /\ prevSpec = MissingFile
    /\ "/repo/b.log" \in marker \ prevMarker
    /\ watch_mode = PatternsMode(<<"*.log">>)

\* ------------------------------------------------------------------------
\* The session record at daemon exit (SpecLife)
\* ------------------------------------------------------------------------

\* Daemon d finishes its exit and the record file goes with it.
ExitRemovesRecord(d) ==
    /\ proc[d] = "exiting"
    /\ proc'[d] = "dead"
    /\ record # 0
    /\ record' = 0

\* C37: a daemon that exits removes the session record only if the record
\* names it, so that it never deletes the record of another daemon that is
\* in its watch session.
C37_ExitRemovesOwnRecordOnly ==
    [][\A d \in Pids : ExitRemovesRecord(d) => record = d]_vars

\* ------------------------------------------------------------------------
\* The pending set and the passes of the loop (SpecLoop)
\* ------------------------------------------------------------------------

\* The tick branch of select! is taken: only it rearms the interval.
TickTaken == lp.pc = "loop" /\ lp'.timer > lp.timer

\* A relevant event has been received since the last pass began.
ReceivedSincePass == lp.rcv > lp.covered

\* A pass begun at a tick comes to its end, with or without an error.
LoopPassEnds == lp.pc = "inpass" /\ lp'.pc \in {"loop", "leaving"}

\* C40: at a tick a pass begins if and only if a relevant event has been
\* received since the previous pass, and when a pass begun at a tick ends,
\* failed or not, the pending set is empty.
C40_PassIffEventSincePass ==
    [][/\ TickTaken => (lp'.pc = "inpass" <=> ReceivedSincePass)
       /\ TickTaken => (pending # {} <=> ReceivedSincePass)
       /\ LoopPassEnds => pending' = {}]_vars

\* A pass begun at a tick has failed; the loop goes on with nothing pending
\* and nothing received since.
C40_Witness ==
    /\ lp.pc = "loop"
    /\ lp.lastErr
    /\ lp.rcv > 0
    /\ lp.covered = lp.rcv
    /\ pending = {}

\* ------------------------------------------------------------------------
\* Explicitly marked paths under a Patterns pass (SpecCmd)
\* ------------------------------------------------------------------------

\* The daemon's initial scan has run in Patterns mode.
PatternsPassDone == trackedMem.pc = "scanned" /\ report.mode = "Patterns"

\* The paths of markedPaths that carried the marker when the pass began.
MarkedListed == {e.p : e \in {x \in Load(prevSpec).marked_files : x.p \in prevMarker}}

\* C39: a pass in Patterns mode removes the marker from no path listed in the
\* specification's markedPaths, whether or not the path matches a pattern.
C39_PatternsPassKeepsMarkedPaths ==
    PatternsPassDone => MarkedListed \subseteq marker

\* ------------------------------------------------------------------------
\* A command and a TrackedFiles pass of the daemon side by side (SpecRace)
\* ------------------------------------------------------------------------

\* The files a command may name: one existing file per command.
RaceArgs == {"a.txt", "b.log"}

RaceTrees == {{"/repo/a.txt", "/repo/b.log"}, {"/repo/a.txt", "/repo/b.log", "/repo/sub"}}

\* The specification a daemon in TrackedFiles mode runs on: paths, no pattern.
RaceSpecFiles ==
    {[state |-> "ok", marked_files |-> ms, patterns |-> <<>>] :
       ms \in {{Abs("/repo/b.log")}, {Rel("/repo/a.txt")},
               {Rel("/repo/a.txt"), Abs("/repo/b.log")},
               {Abs("/repo/sub/c.log")}}}

\* The command is about to start; the daemon is between two passes.
RaceInit ==
    /\ LifeIdle
    /\ SessIdle
    /\ dstat = [pc |-> "off"]
    /\ atomic = [pc |-> "off"]
    /\ index = {}
    /\ exists \in RaceTrees
    /\ marker \in SUBSET {"/repo/a.txt", "/repo/b.log"}
    /\ failing = {}
    /\ rules \in {<<>>, <<"*.log">>}
    /\ specFile \in RaceSpecFiles
    /\ watch_mode = TrackedFilesMode
    /\ report = NoReport
    /\ prevMarker = marker
    /\ prevSpec = specFile
    /\ passNo = 0
    /\ lp = [pc |-> "idle", file |-> specFile, out |-> specFile]
    /\ \E action \in {"Ignore", "Reset"}, a \in RaceArgs :
         trackedMem = [pc |-> "start", action |-> action, dry_run |-> FALSE,
                       args |-> <<a>>, files |-> {},
                       loaded |-> DefaultTracked, mem |-> DefaultTracked,
                       err |-> FALSE]

RaceFrame ==
    /\ UNCHANGED <<lifeVars, sessVars>>
    /\ UNCHANGED <<exists, failing, rules>>
    /\ UNCHANGED <<watch_mode, report, prevMarker, prevSpec>>
    /\ UNCHANGED <<dstat, atomic, index>>

\* process_files_and_patterns: TrackedFiles::load.
RaceCliLoad ==
    /\ trackedMem.pc = "start"
    /\ trackedMem' = [trackedMem EXCEPT
          !.pc = "loaded",
          !.loaded = TrackedFilesLoad(specFile).value,
          !.mem = TrackedFilesLoad(specFile).value]
    /\ UNCHANGED <<marker, specFile, lp, passNo>>
    /\ RaceFrame

\* process_files_and_patterns: the marker phase over the one item.
RaceCliMark ==
    /\ trackedMem.pc = "loaded"
    /\ LET m == trackedMem
           p == ArgFile(m.args[1])
           r == ProcessPath(m.action, m.dry_run, p, marker, failing)
       IN  /\ marker' = r.marker
           /\ trackedMem' = [m EXCEPT
                 !.pc = "marked",
                 !.files = IF r.res > 0 THEN {Rel(p)} ELSE {}]
    /\ UNCHANGED <<specFile, lp, passNo>>
    /\ RaceFrame

\* process_files_and_patterns: the update of the loaded copy and the save.
RaceCliSave ==
    /\ trackedMem.pc = "marked"
    /\ LET j == JoinValue(trackedMem, specFile)
       IN  /\ specFile' = j.save.file
           /\ trackedMem' = [trackedMem EXCEPT
                 !.pc = IF j.save.err THEN "failed" ELSE "done",
                 !.mem = j.mem, !.err = j.save.err]
    /\ UNCHANGED <<marker, lp, passNo>>
    /\ RaceFrame

\* perform_tracked_files_scan: TrackedFiles::load; with nothing tracked
\* the pass returns at once.
RacePassLoad ==
    /\ lp.pc = "idle"
    /\ passNo < MaxPasses
    /\ lp' = [pc |-> IF Load(specFile).marked_files = {} THEN "idle" ELSE "loaded",
              file |-> specFile, out |-> specFile]
    /\ passNo' = passNo + 1
    /\ UNCHANGED <<marker, specFile, trackedMem>>
    /\ RaceFrame

\* perform_tracked_files_scan: the loop over the loaded paths.
RacePassWalk ==
    /\ lp.pc = "loaded"
    /\ \E order \in Orders(Load(lp.file).marked_files) :
         LET out == PerformTrackedFilesScan(exists, marker, rules, failing,
                                            lp.file, order)
         IN  /\ marker' = out.marker
             /\ lp' = [lp EXCEPT !.pc = "walked", !.out = out.specFile]
    /\ UNCHANGED <<specFile, trackedMem, passNo>>
    /\ RaceFrame

\* perform_tracked_files_scan: tracked.save.
RacePassSave ==
    /\ lp.pc = "walked"
    /\ specFile' = lp.out
    /\ lp' = [lp EXCEPT !.pc = "idle"]
    /\ UNCHANGED <<marker, trackedMem, passNo>>
    /\ RaceFrame

RaceNext ==
    \/ RaceCliLoad
    \/ RaceCliMark
    \/ RaceCliSave
    \/ RacePassLoad
    \/ RacePassWalk
    \/ RacePassSave

SpecRace == RaceInit /\ [][RaceNext]_vars

\* The command has saved and no pass is between its load and its save.
RaceSettled == trackedMem.pc = "done" /\ lp.pc = "idle"

\* C38: an update of the specification by an ignore or reset command is not
\* lost to a TrackedFiles pass running at the same time: once both have
\* saved, the paths the command marked are listed and the paths it reset
\* are not, in every interleaving.
C38_CliUpdateNotLost ==
    RaceSettled =>
        IF trackedMem.action = "Ignore"
        THEN trackedMem.files \subseteq Load(specFile).marked_files
        ELSE trackedMem.files \cap Load(specFile).marked_files = {}

====
